---- MODULE Spec2Model ----
(***************************************************************************)
(* Key Transparency client core: the response verifier                     *)
(* (core/client/kt/verify.go), the gRPC client that owns the trusted log   *)
(* root (Client.GetEntry) and the mutation builder                         *)
(* (core/mutator/entry/mutation.go).                                       *)
(*                                                                         *)
(* Cryptography is idealised: a hash is the value it was computed from     *)
(* (collision free), a signature names the key and the object signed, a    *)
(* Merkle proof verifies exactly when the statement it proves is true of   *)
(* the committed structure and the proof bytes are the genuine ones.       *)
(***************************************************************************)
EXTENDS Integers, Sequences, FiniteSets, TLC

\* Highest map revision (and so log size - 1) the server presents.
MaxRev == 1

\* Go's nil: a nil pointer, an unset message field, a nil byte slice.
Nil == <<>>
OK == "ok"
NoCall == "none"

DomainID == "example.com"
AppID == "app"
UserID == "alice"
OtherUser == "bob"

(***************************************************************************)
(* Commitments (core/crypto/commitments).                                  *)
(***************************************************************************)
NoCommitment == <<>>

Commit(userID, appID, data, nonce) == <<"commit", userID, appID, data, nonce>>

CommitmentsVerify(userID, appID, commitment, data, nonce) ==
    commitment = Commit(userID, appID, data, nonce)

(***************************************************************************)
(* VRF: the index of a user is the VRF output on (domain, app, user).      *)
(***************************************************************************)
VrfKey == "vrfkey"

VrfAlpha(domainID, appID, userID) == <<domainID, appID, userID>>

VrfProve(key, alpha) == [key |-> key, alpha |-> alpha]

VrfBeta(alpha) == <<"beta", alpha>>

\* Verifier.Index: the index, or an error when the proof is not the VRF
\* key's proof for this alpha.
Index(vrfProof, domainID, appID, userID) ==
    LET alpha == VrfAlpha(domainID, appID, userID)
    IN  IF vrfProof = VrfProve(VrfKey, alpha)
        THEN [err |-> OK, index |-> VrfBeta(alpha)]
        ELSE [err |-> "VrfInvalid", index |-> Nil]

AliceIndex == VrfBeta(VrfAlpha(DomainID, AppID, UserID))
BobIndex == VrfBeta(VrfAlpha(DomainID, AppID, OtherUser))
Indices == {AliceIndex, BobIndex}

(***************************************************************************)
(* Entries and their leaf encoding.                                        *)
(***************************************************************************)
NoSignatures == <<>>

ObjectHash(obj) == <<"objecthash", obj>>

NilHash == ObjectHash(Nil)

MkEntry(index, commitment, keys, previous, sigs) ==
    [index |-> index, commitment |-> commitment, authorized_keys |-> keys,
     previous |-> previous, signatures |-> sigs]

\* The serialised Entry message: its fields in field order.
ToLeafValue(e) ==
    <<e.index, e.commitment, e.authorized_keys, e.previous, e.signatures>>

EmptyLeaf == <<>>
GarbageLeaf == <<"garbage">>

\* entry.FromLeafValue: nil for the zero-length leaf, an error for bytes that
\* are no Entry message.
FromLeafValue(value) ==
    IF value = EmptyLeaf THEN [err |-> OK, entry |-> Nil]
    ELSE IF Len(value) = 5
    THEN [err |-> OK,
          entry |-> MkEntry(value[1], value[2], value[3], value[4], value[5])]
    ELSE [err |-> "DecodeError", entry |-> Nil]

GetCommitment(e) == IF e = Nil THEN NoCommitment ELSE e.commitment

GetAuthorizedKeys(e) == IF e = Nil THEN <<>> ELSE e.authorized_keys

(***************************************************************************)
(* Keys and object signatures (trillian/crypto).                           *)
(***************************************************************************)
PublicKey(id) == [key_id |-> id, key |-> id]

SignObject(priv, obj) == [by |-> priv, over |-> ObjectHash(obj)]

VerifyObject(pub, obj, sig) == sig = SignObject(pub, obj)

MapKey == "mapkey"
LogKey == "logkey"
AttackerKey == "attacker"

(***************************************************************************)
(* Sparse Merkle map: a root hash stands for the whole map content.        *)
(***************************************************************************)
MapWith(leaf) == [i \in Indices |-> IF i = AliceIndex THEN leaf ELSE EmptyLeaf]

\* The sibling hashes of an index: they commit to the rest of the map.
MapPath(root, index) == [i \in Indices \ {index} |-> root[i]]

TamperedPath(index) == [i \in Indices \ {index} |-> <<"tampered">>]

VerifyMapInclusionProof(mapID, index, leaf, expectedRoot, proof) ==
    /\ index \in DOMAIN expectedRoot
    /\ proof = MapPath(expectedRoot, index)
    /\ expectedRoot[index] = leaf

(***************************************************************************)
(* Signed map roots and the append-only log of them.                       *)
(***************************************************************************)
MapID == "map"

UnsignedSMR(rev, root) ==
    [map_id |-> MapID, map_revision |-> rev, root_hash |-> root, signature |-> Nil]

SignedSMR(key, rev, root) ==
    [UnsignedSMR(rev, root) EXCEPT !.signature = SignObject(key, UnsignedSMR(rev, root))]

\* json.Marshal of the SignedMapRoot message: every field, signature included.
JsonMarshal(smr) ==
    <<"json", smr.map_id, smr.map_revision, smr.root_hash, smr.signature>>

UnsignedLogRoot(leaves) ==
    [tree_size |-> Len(leaves), root_hash |-> leaves, signature |-> Nil]

SignedLogRoot(key, leaves) ==
    [UnsignedLogRoot(leaves) EXCEPT !.signature = SignObject(key, UnsignedLogRoot(leaves))]

\* The zero value of trillian.SignedLogRoot.
ZeroLogRoot == [tree_size |-> 0, root_hash |-> <<>>, signature |-> Nil]

IsPrefix(s, t) == Len(s) <= Len(t) /\ SubSeq(t, 1, Len(s)) = s

GenuineProof == "proof"
BogusProof == "bogus"

\* LogVerifier.VerifyRoot: bootstrap from an empty trusted root, otherwise
\* no rewind, equal sizes need equal roots, a consistency proof, and the new
\* root's signature.
VerifyRoot(trusted, newRoot, consistency) ==
    IF trusted.tree_size = 0 THEN OK
    ELSE IF newRoot.tree_size < trusted.tree_size THEN "LogRewind"
    ELSE IF newRoot.tree_size = trusted.tree_size
            /\ newRoot.root_hash # trusted.root_hash
    THEN "LogConsistencyInvalid"
    ELSE IF ~(consistency = GenuineProof
              /\ IsPrefix(trusted.root_hash, newRoot.root_hash))
    THEN "LogConsistencyInvalid"
    ELSE IF ~VerifyObject(LogKey, [newRoot EXCEPT !.signature = Nil],
                          newRoot.signature)
    THEN "LogRootSignatureInvalid"
    ELSE OK

\* LogVerifier.VerifyInclusionAtIndex.
VerifyInclusionAtIndex(trusted, leaf, leafIndex, proof) ==
    /\ proof = GenuineProof
    /\ leafIndex >= 0
    /\ leafIndex < trusted.tree_size
    /\ leafIndex < Len(trusted.root_hash)
    /\ trusted.root_hash[leafIndex + 1] = leaf

(***************************************************************************)
(* What a server can answer: the fields of a GetEntryResponse.             *)
(***************************************************************************)
DataDEAD == <<"DE", "AD", "BE", "EF">>
DataFlipped == <<"DE", "AD", "BE", "EE">>
NonceZero == "nonce-zero"

ProfileEntry(data) ==
    MkEntry(AliceIndex, Commit(UserID, AppID, data, NonceZero),
            <<PublicKey("k1")>>, NilHash, NoSignatures)

MapRootAt(rev) ==
    IF rev = 0 THEN MapWith(EmptyLeaf)
    ELSE MapWith(ToLeafValue(ProfileEntry(DataDEAD)))

HonestSMR(rev) == SignedSMR(MapKey, rev, MapRootAt(rev))

\* A second, validly signed view of the last revision (a split view).
ForkSMR == SignedSMR(MapKey, MaxRev, MapWith(EmptyLeaf))

ForgedSMR == SignedSMR(AttackerKey, MaxRev, MapRootAt(MaxRev))

SMRs == {HonestSMR(r) : r \in 0..MaxRev} \cup {ForkSMR, ForgedSMR}

HonestLog(size) == [i \in 1..size |-> JsonMarshal(HonestSMR(i - 1))]

ForkLog(size) ==
    [i \in 1..size |-> IF i = size THEN JsonMarshal(ForkSMR)
                       ELSE JsonMarshal(HonestSMR(i - 1))]

LogRoots ==
    {SignedLogRoot(LogKey, HonestLog(n)) : n \in 1..(MaxRev + 1)}
    \cup {SignedLogRoot(LogKey, ForkLog(MaxRev + 1)),
          SignedLogRoot(AttackerKey, HonestLog(MaxRev + 1))}

VrfProofs ==
    {VrfProve(VrfKey, VrfAlpha(DomainID, AppID, UserID)),
     VrfProve(VrfKey, VrfAlpha(DomainID, AppID, OtherUser))}

Committeds ==
    {Nil} \cup {[key |-> NonceZero, data |-> d] : d \in {DataDEAD, DataFlipped}}

LeafProof(leaf, inclusion) == [leaf |-> leaf, inclusion |-> inclusion]

\* The leaf proofs a server can send along with a map root.
LeafProofs(smr) ==
    {Nil,
     LeafProof(EmptyLeaf, MapPath(smr.root_hash, AliceIndex)),
     LeafProof(ToLeafValue(ProfileEntry(DataDEAD)), MapPath(smr.root_hash, AliceIndex)),
     LeafProof(ToLeafValue(ProfileEntry(DataDEAD)), TamperedPath(AliceIndex)),
     LeafProof(GarbageLeaf, MapPath(smr.root_hash, AliceIndex))}

LogProofs == {GenuineProof, BogusProof}

GetEntryResponse(vrf, committed, leafProof, smr, logRoot, consistency, inclusion) ==
    [vrf_proof |-> vrf, committed |-> committed, leaf_proof |-> leafProof,
     smr |-> smr, log_root |-> logRoot, log_consistency |-> consistency,
     log_inclusion |-> inclusion]

(***************************************************************************)
(* Verifier.VerifyGetEntryResponse.                                        *)
(***************************************************************************)
\* in.GetLeafProof().GetLeaf().GetLeafValue(): nil-safe getters.
GetLeafValue(leafProof) == IF leafProof = Nil THEN Nil ELSE leafProof.leaf

\* The commitment step: only when the response carries committed data.
CommitmentStep(userID, appID, e, in) ==
    IF in.committed # Nil
       /\ ~CommitmentsVerify(userID, appID, GetCommitment(e),
                             in.committed.data, in.committed.key)
    THEN "CommitmentMismatch"
    ELSE OK

\* The nil check on the leaf proof, then the sparse Merkle inclusion proof.
SparseStep(index, in) ==
    IF in.leaf_proof = Nil THEN "ErrNilProof"
    ELSE IF ~VerifyMapInclusionProof(in.smr.map_id, index, in.leaf_proof.leaf,
                                     in.smr.root_hash, in.leaf_proof.inclusion)
    THEN "SparseProofInvalid"
    ELSE OK

\* The map root's signature, checked on a copy with the signature removed.
SmrSignatureStep(in) ==
    IF ~VerifyObject(MapKey, [in.smr EXCEPT !.signature = Nil], in.smr.signature)
    THEN "SmrSignatureInvalid"
    ELSE OK

\* A verifier that takes the response's log root without checking it.
LogRootStepSkipped(trusted, in) == OK

LogRootStep(trusted, in) == VerifyRoot(trusted, in.log_root, in.log_consistency)

\* Inclusion of the marshalled map root at index map_revision, in the root
\* the local variable trusted now points to: the response's log root.
LogInclusionStep(in) ==
    IF ~VerifyInclusionAtIndex(in.log_root, JsonMarshal(in.smr),
                               in.smr.map_revision, in.log_inclusion)
    THEN "LogInclusionInvalid"
    ELSE OK

\* A verifier that runs every step and keeps the error of the last failure.
RECURSIVE LastError(_)
LastError(errs) ==
    IF errs = <<>> THEN OK
    ELSE IF LastError(Tail(errs)) # OK THEN LastError(Tail(errs))
    ELSE Head(errs)

\* The first error of a sequence of steps, each step returning at its error.
RECURSIVE FirstError(_)
FirstError(errs) ==
    IF errs = <<>> THEN OK
    ELSE IF Head(errs) # OK THEN Head(errs)
    ELSE FirstError(Tail(errs))

\* A verifier that stores the accepted root through the pointer, before the
\* inclusion proof is checked.
TrustedAfterStored(trusted, in, rootAccepted) ==
    IF rootAccepted THEN in.log_root ELSE trusted

\* "trusted = in.GetLogRoot()" rebinds the function's own pointer parameter:
\* the root the caller owns is not written.
TrustedAfter(trusted, in, rootAccepted) == trusted

VerifyGetEntryResponse(domainID, appID, userID, trusted, in) ==
    LET dec == FromLeafValue(GetLeafValue(in.leaf_proof))
        idx == Index(in.vrf_proof, domainID, appID, userID)
        upToRoot == FirstError(<<dec.err,
                                 CommitmentStep(userID, appID, dec.entry, in),
                                 idx.err,
                                 SparseStep(idx.index, in),
                                 SmrSignatureStep(in),
                                 LogRootStep(trusted, in)>>)
    IN  [err |-> FirstError(<<upToRoot, LogInclusionStep(in)>>),
         trusted |-> TrustedAfter(trusted, in, upToRoot = OK)]

(***************************************************************************)
(* The mutation builder (core/mutator/entry/mutation.go).                  *)
(***************************************************************************)
\* A signatures.Signer: its key id, its private key, and whether Sign fails.
Signer(keyID, priv, fails) == [key_id |-> keyID, priv |-> priv, fails |-> fails]

RemoveSignatures(e) == [e EXCEPT !.signatures = NoSignatures]

\* Whether sigs holds, for one of keys, a signature that verifies over data.
HasAuthorizedSignature(keys, data, sigs) ==
    \E i \in DOMAIN keys :
        /\ keys[i].key_id \in DOMAIN sigs
        /\ VerifyObject(keys[i].key, data, sigs[keys[i].key_id])

\* entry.verifyKeys: an initial insert is checked against the new authorized
\* keys, every other mutation against the previous ones.
verifyKeys(prevAuthz, authz, data, sigs) ==
    IF HasAuthorizedSignature(IF prevAuthz = <<>> THEN authz ELSE prevAuthz,
                              data, sigs)
    THEN OK
    ELSE "UnauthorizedSignature"

\* An applier that compares the previous hash before it looks for a replay.
MutateHashFirst(prevEntry, newEntry) ==
    IF newEntry.previous # ObjectHash(prevEntry) THEN "PreviousHashMismatch"
    ELSE IF prevEntry # Nil /\ newEntry = prevEntry THEN "Replay"
    ELSE IF prevEntry # Nil /\ newEntry.index # prevEntry.index THEN "IndexMismatch"
    ELSE IF newEntry.authorized_keys = <<>> THEN "MissingKey"
    ELSE verifyKeys(GetAuthorizedKeys(prevEntry), newEntry.authorized_keys,
                    RemoveSignatures(newEntry), newEntry.signatures)

\* mutator.Mutate: the applier, also run by the builder as a self-check.
Mutate(prevEntry, newEntry) ==
    IF prevEntry # Nil /\ newEntry = prevEntry THEN "Replay"
    ELSE IF newEntry.previous # ObjectHash(prevEntry) THEN "PreviousHashMismatch"
    ELSE IF prevEntry # Nil /\ newEntry.index # prevEntry.index THEN "IndexMismatch"
    ELSE IF newEntry.authorized_keys = <<>> THEN "MissingKey"
    ELSE verifyKeys(GetAuthorizedKeys(prevEntry), newEntry.authorized_keys,
                    RemoveSignatures(newEntry), newEntry.signatures)

NewMutation(index, domainID, appID, userID) ==
    [DomainID |-> domainID, AppID |-> appID, UserID |-> userID,
     data |-> Nil, nonce |-> Nil, prevEntry |-> Nil,
     entry |-> MkEntry(index, NoCommitment, <<>>, NilHash, NoSignatures)]

\* A SetPrevious that stores the decoded entry but keeps the old hash.
SetPreviousKeepsHash(m, oldValue, copyPrevious) ==
    LET dec == FromLeafValue(oldValue)
        prevEntry == dec.entry
        linked == [m EXCEPT !.prevEntry = prevEntry]
    IN  IF dec.err # OK THEN [m |-> m, err |-> dec.err]
        ELSE IF copyPrevious
        THEN [m |-> [linked EXCEPT
                       !.entry.authorized_keys = GetAuthorizedKeys(prevEntry),
                       !.entry.commitment = GetCommitment(prevEntry)],
              err |-> OK]
        ELSE [m |-> linked, err |-> OK]

\* Each builder operation yields the builder after it and the error returned.
SetPrevious(m, oldValue, copyPrevious) ==
    LET dec == FromLeafValue(oldValue)
        prevEntry == dec.entry
        linked == [m EXCEPT !.prevEntry = prevEntry,
                            !.entry.previous = ObjectHash(prevEntry)]
    IN  IF dec.err # OK THEN [m |-> m, err |-> dec.err]
        ELSE IF copyPrevious
        THEN [m |-> [linked EXCEPT
                       !.entry.authorized_keys = GetAuthorizedKeys(prevEntry),
                       !.entry.commitment = GetCommitment(prevEntry)],
              err |-> OK]
        ELSE [m |-> linked, err |-> OK]

\* A SetCommitment that commits to the new data but keeps the old one.
SetCommitmentStaleData(m, data, genErr, nonce) ==
    IF genErr # OK THEN [m |-> m, err |-> genErr]
    ELSE [m |-> [m EXCEPT !.nonce = nonce,
                          !.entry.commitment = Commit(m.UserID, m.AppID, data, nonce)],
          err |-> OK]

\* genErr: the error of commitments.GenCommitmentKey; nonce: the key it made.
SetCommitment(m, data, genErr, nonce) ==
    IF genErr # OK THEN [m |-> m, err |-> genErr]
    ELSE [m |-> [m EXCEPT !.data = data, !.nonce = nonce,
                          !.entry.commitment = Commit(m.UserID, m.AppID, data, nonce)],
          err |-> OK]

\* A builder that reports the missing key but has replaced the keys already.
ReplaceAuthorizedKeysUnchecked(m, pubkeys) ==
    [m |-> [m EXCEPT !.entry.authorized_keys = pubkeys],
     err |-> IF Len(pubkeys) < 1 THEN "MissingKey" ELSE OK]

ReplaceAuthorizedKeys(m, pubkeys) ==
    IF Len(pubkeys) < 1 THEN [m |-> m, err |-> "MissingKey"]
    ELSE [m |-> [m EXCEPT !.entry.authorized_keys = pubkeys], err |-> OK]

\* The loop of sign: every signer signs the entry, whose signatures were
\* cleared; a signature is filed under its signer's key id.
RECURSIVE SignLoop(_, _, _)
SignLoop(entry, signers, sigs) ==
    IF signers = <<>> THEN [err |-> OK, sigs |-> sigs]
    ELSE IF Head(signers).fails THEN [err |-> "SignError", sigs |-> sigs]
    ELSE SignLoop(entry, Tail(signers),
                  (Head(signers).key_id :> SignObject(Head(signers).priv, entry))
                      @@ sigs)

\* A sign that never stores the signatures it collected in the entry.
signNotStored(m, signers) ==
    LET cleared == [m EXCEPT !.entry.signatures = NoSignatures]
        loop == SignLoop(cleared.entry, signers, NoSignatures)
    IN  [m |-> cleared, err |-> loop.err,
         mutation |-> IF loop.err # OK THEN Nil ELSE cleared.entry]

sign(m, signers) ==
    LET cleared == [m EXCEPT !.entry.signatures = NoSignatures]
        loop == SignLoop(cleared.entry, signers, NoSignatures)
        signed == [cleared EXCEPT !.entry.signatures = loop.sigs]
    IN  IF loop.err # OK THEN [m |-> cleared, err |-> loop.err, mutation |-> Nil]
        ELSE [m |-> signed, err |-> OK, mutation |-> signed.entry]

\* A builder that authorizes against the key set of the new entry.
AuthorizationStepNewKeys(m, mutation) ==
    verifyKeys(GetAuthorizedKeys(m.entry), GetAuthorizedKeys(m.entry),
               RemoveSignatures(mutation), mutation.signatures)

\* "Check authorization": against the previous entry's authorized keys.
AuthorizationStep(m, mutation) ==
    verifyKeys(GetAuthorizedKeys(m.prevEntry), GetAuthorizedKeys(m.entry),
               RemoveSignatures(mutation), mutation.signatures)

UpdateEntryRequest(m, mutation, trustedTreeSize) ==
    [domain_id |-> m.DomainID, user_id |-> m.UserID, app_id |-> m.AppID,
     first_tree_size |-> trustedTreeSize,
     entry_update |-> [mutation |-> mutation,
                       committed |-> [key |-> m.nonce, data |-> m.data]]]

SerializeAndSign(m, signers, trustedTreeSize) ==
    LET s == sign(m, signers)
        e == IF s.err # OK THEN s.err
             ELSE FirstError(<<AuthorizationStep(s.m, s.mutation),
                               Mutate(s.m.prevEntry, s.mutation)>>)
    IN  [m |-> s.m, err |-> e,
         req |-> IF e # OK THEN Nil
                 ELSE UpdateEntryRequest(s.m, s.mutation, trustedTreeSize)]

\* Mutation.Check: whether the leaf the server shows is the requested entry.
Check(m, newLeaf) ==
    LET dec == FromLeafValue(newLeaf)
    IN  IF dec.err # OK THEN [equal |-> FALSE, err |-> dec.err]
        ELSE [equal |-> dec.entry = m.entry, err |-> OK]

\* Verifier.NewMutation: a builder on top of the leaf just fetched, with the
\* new profile committed and, when keys are given, the keys replaced.
VerifierNewMutation(domainID, appID, userID, profileData, authorizedKeys, vrfProof, oldLeaf, genErr, nonce) ==
    LET idx == Index(vrfProof, domainID, appID, userID)
        m0 == NewMutation(idx.index, domainID, appID, userID)
        m1 == SetPrevious(m0, oldLeaf, TRUE)
        m2 == SetCommitment(m1.m, profileData, genErr, nonce)
        m3 == IF authorizedKeys = <<>> THEN [m |-> m2.m, err |-> OK]
              ELSE ReplaceAuthorizedKeys(m2.m, authorizedKeys)
        e == FirstError(<<idx.err, m1.err, m2.err, m3.err>>)
    IN  [m |-> IF e # OK THEN Nil ELSE m3.m, err |-> e]

(***************************************************************************)
(* Client.Update and Client.Retry.                                         *)
(***************************************************************************)
\* An answer to the UpdateEntry or GetEntry RPC: its error or its proof.
RpcAnswer(rpcErr, proof) == [err |-> rpcErr, proof |-> proof]

\* A Retry that leaves the builder on the leaf it was made on.
RetryNoRebase(domainID, s, trusted, answer) ==
    LET v == VerifyGetEntryResponse(domainID, s.req.app_id, s.req.user_id,
                                    trusted, answer.proof)
        cntLeaf == GetLeafValue(answer.proof.leaf_proof)
        c == Check(s.m, cntLeaf)
    IN  IF s.err # OK
        THEN [m |-> s.m, trusted |-> trusted, submitted |-> FALSE, err |-> s.err]
        ELSE IF answer.err # OK
        THEN [m |-> s.m, trusted |-> trusted, submitted |-> TRUE, err |-> answer.err]
        ELSE IF v.err # OK
        THEN [m |-> s.m, trusted |-> v.trusted, submitted |-> TRUE, err |-> v.err]
        ELSE IF c.err # OK
        THEN [m |-> s.m, trusted |-> v.trusted, submitted |-> TRUE, err |-> c.err]
        ELSE [m |-> s.m, trusted |-> v.trusted, submitted |-> TRUE,
              err |-> IF c.equal THEN OK ELSE "Retry"]

\* One call of Client.Retry, from what its call of m.SerializeAndSign
\* returned: s. submitted tells whether UpdateEntry was called.
Retry(domainID, s, trusted, answer) ==
    LET v == VerifyGetEntryResponse(domainID, s.req.app_id, s.req.user_id,
                                    trusted, answer.proof)
        cntLeaf == GetLeafValue(answer.proof.leaf_proof)
        c == Check(s.m, cntLeaf)
        sp == SetPrevious(s.m, cntLeaf, FALSE)
    IN  IF s.err # OK
        THEN [m |-> s.m, trusted |-> trusted, submitted |-> FALSE, err |-> s.err]
        ELSE IF answer.err # OK
        THEN [m |-> s.m, trusted |-> trusted, submitted |-> TRUE, err |-> answer.err]
        ELSE IF v.err # OK
        THEN [m |-> s.m, trusted |-> v.trusted, submitted |-> TRUE, err |-> v.err]
        ELSE IF c.err # OK
        THEN [m |-> s.m, trusted |-> v.trusted, submitted |-> TRUE, err |-> c.err]
        ELSE IF sp.err # OK
        THEN [m |-> s.m, trusted |-> v.trusted, submitted |-> TRUE, err |-> sp.err]
        ELSE [m |-> sp.m, trusted |-> v.trusted, submitted |-> TRUE,
              err |-> IF c.equal THEN OK ELSE "Retry"]

\* An update loop that makes one attempt too many.
ShouldRetryOffByOne(e, i, retryCount) == e = "Retry" /\ i <= retryCount

\* An update loop that goes round on every error.
ShouldRetryAnyError(e, i, retryCount) == e # OK /\ i < retryCount

\* The condition of the loop of Update.
ShouldRetry(e, i, retryCount) == e = "Retry" /\ i < retryCount

(***************************************************************************)
(* Client.ListHistory.                                                     *)
(***************************************************************************)
\* The most epochs ListHistory asks for in one page.
pageSize == 16

Min(a, b) == IF a < b THEN a ELSE b

\* The request of one page; start is the loop's current start. The
\* conversion int32((end-start)+1) keeps every value below 2^31.
ListEntryHistoryRequest(domainID, userID, appID, start, end) ==
    [domain_id |-> domainID, user_id |-> userID, app_id |-> appID,
     start |-> start, page_size |-> Min((end - start) + 1, pageSize)]

\* A page of the server: its values and where the next page starts.
ListEntryHistoryResponse(values, nextStart) ==
    [values |-> values, next_start |-> nextStart]

\* v.GetCommitted().GetData(): nil-safe getters.
GetCommittedData(v) == IF v.committed = Nil THEN Nil ELSE v.committed.data

\* ListHistory when nothing has been received: no current profile, an empty
\* map of profiles. The map has one entry per key, a pointer to a map root.
NoProfiles(trustedRoot) ==
    [trusted |-> trustedRoot, currentProfile |-> Nil, profiles |-> {}, err |-> OK]

\* A loop body that records every profile, equal to the last one or not.
RecordProfileAlways(st, smr, prof) ==
    [st EXCEPT !.profiles = {e \in @ : e.smr # smr}
                            \cup {[smr |-> smr, profile |-> prof]},
               !.currentProfile = prof]

\* Compress profiles that are equal through time: bytes.Equal holds of a nil
\* and an empty slice, both are the empty sequence here. Otherwise
\* "profiles[v.GetSmr()] = profile; currentProfile = profile".
RecordProfile(st, smr, prof) ==
    IF st.currentProfile = prof THEN st
    ELSE [st EXCEPT !.profiles = {e \in @ : e.smr # smr}
                                 \cup {[smr |-> smr, profile |-> prof]},
                    !.currentProfile = prof]

\* "for i, v := range resp.GetValues()": verify v against the client's
\* trusted root and return at the first error, else record its profile.
RECURSIVE HistoryValues(_, _, _, _, _)
HistoryValues(domainID, appID, userID, values, st) ==
    IF values = <<>> THEN st
    ELSE LET v == Head(values)
             r == VerifyGetEntryResponse(domainID, appID, userID, st.trusted, v)
         IN  IF r.err # OK
             THEN [st EXCEPT !.trusted = r.trusted, !.err = r.err]
             ELSE HistoryValues(domainID, appID, userID, Tail(values),
                                RecordProfile([st EXCEPT !.trusted = r.trusted],
                                              v.smr, GetCommittedData(v)))

\* A ListHistory that returns what it has whatever the number of epochs.
ListHistoryResultUnchecked(epochsReceived, epochsWant, profiles) ==
    [profiles |-> [map |-> profiles], err |-> OK]

\* After the loop: ErrIncomplete and no map when fewer epochs were received
\* than wanted, else the map.
ListHistoryResult(epochsReceived, epochsWant, profiles) ==
    IF epochsReceived < epochsWant
    THEN [profiles |-> Nil, err |-> "Incomplete"]
    ELSE [profiles |-> [map |-> profiles], err |-> OK]

(***************************************************************************)
(* The monitor (core/monitor/monitor.go).                                  *)
(***************************************************************************)
\* The monitor's private key.
MonitorKey == "monitorkey"

\* pb.Epoch: a signed map root and the log proofs that go with it.
Epoch(smr, logRoot, consistency, inclusion) ==
    [smr |-> smr, log_root |-> logRoot, log_consistency |-> consistency,
     log_inclusion |-> inclusion]

\* pb.MutationProof: a mutation and the proof of the leaf it is applied to.
MutationProof(mutation, leafProof) ==
    [mutation |-> mutation, leaf_proof |-> leafProof]

\* EpochPair is two adjacent epochs.
EpochPair(epochA, epochB) == [A |-> epochA, B |-> epochB]

\* Monitor.VerifyEpoch: the map root's signature, the log root against the
\* monitor's trusted root, the inclusion of the map root in the log. The
\* trusted root advances when the epoch verifies.
VerifyEpoch(trusted, epoch) ==
    LET e == FirstError(<<SmrSignatureStep(epoch), LogRootStep(trusted, epoch),
                          LogInclusionStep(epoch)>>)
    IN  [errs |-> IF e = OK THEN <<>> ELSE <<e>>,
         trusted |-> IF e = OK THEN epoch.log_root ELSE trusted]

\* The errors of the mutations, each against the leaf its proof shows to be
\* in the old root.
RECURSIVE MutationErrors(_, _, _)
MutationErrors(mutations, oldRoot, mapID) ==
    IF mutations = <<>> THEN <<>>
    ELSE LET mp == Head(mutations)
             dec == FromLeafValue(GetLeafValue(mp.leaf_proof))
             e == IF ~VerifyMapInclusionProof(mapID, mp.mutation.index,
                                              mp.leaf_proof.leaf, oldRoot,
                                              mp.leaf_proof.inclusion)
                  THEN "SparseProofInvalid"
                  ELSE IF dec.err # OK THEN dec.err
                  ELSE Mutate(dec.entry, mp.mutation)
         IN  (IF e = OK THEN <<>> ELSE <<e>>)
             \o MutationErrors(Tail(mutations), oldRoot, mapID)

\* The root after the mutations' entries have replaced their leaves.
RECURSIVE ApplyMutations(_, _)
ApplyMutations(mutations, root) ==
    IF mutations = <<>> THEN root
    ELSE ApplyMutations(Tail(mutations),
                        [root EXCEPT ![Head(mutations).mutation.index] =
                                        ToLeafValue(Head(mutations).mutation)])

\* Monitor.verifyMutations: mutate every leaf, recompute the root, compare
\* it with the root of epoch B.
verifyMutations(mutations, oldRoot, expectedNewRoot, mapID) ==
    MutationErrors(mutations, oldRoot, mapID)
    \o (IF ApplyMutations(mutations, oldRoot) # expectedNewRoot
        THEN <<"RootMismatch">> ELSE <<>>)

\* A verification that goes on to the mutations whatever VerifyEpoch said.
VerifyEpochMutationsSkipEpoch(trusted, epochA, epochB, mutations) ==
    LET ve == VerifyEpoch(trusted, epochB)
        vm == verifyMutations(mutations, epochA.smr.root_hash,
                              epochB.smr.root_hash, epochB.smr.map_id)
    IN  [errs |-> IF Len(vm) > 0 THEN vm ELSE <<>>,
         trusted |-> ve.trusted]

\* VerifyEpochMutations validates that epochA + mutations = epochB.
VerifyEpochMutations(trusted, epochA, epochB, mutations) ==
    LET ve == VerifyEpoch(trusted, epochB)
        vm == verifyMutations(mutations, epochA.smr.root_hash,
                              epochB.smr.root_hash, epochB.smr.map_id)
    IN  [errs |-> IF Len(ve.errs) > 0 THEN ve.errs
                  ELSE IF Len(vm) > 0 THEN vm
                  ELSE <<>>,
         trusted |-> ve.trusted]

\* Monitor.signMapRoot: a copy of the map root under the monitor's signature.
signMapRoot(smr, signErr) ==
    IF signErr # OK THEN [smr |-> Nil, err |-> signErr]
    ELSE [smr |-> [smr EXCEPT !.signature =
                                SignObject(MonitorKey, [smr EXCEPT !.signature = Nil])],
          err |-> OK]

\* monitorstorage.Result, without the time the epoch was seen.
Result(smr, errors) == [smr |-> smr, errors |-> errors]

\* A pair former that starts over after every pair.
EpochAAfterSendReset(epoch) == Nil

\* "epochA = epoch" after the pair was sent.
EpochAAfterSend(epoch) == epoch

\* A loop that gives up the pair and waits for the next one.
AfterFetchSkip(fetchErr) == IF fetchErr # OK THEN "recv" ELSE "verify"

\* Where ProcessLoop goes after EpochMutations.
AfterFetch(fetchErr) == IF fetchErr # OK THEN "returned" ELSE "verify"

\* A loop that countersigns whatever the verification said.
AfterVerifySignAlways(errs) == "sign"

\* Where ProcessLoop goes after VerifyEpochMutations: sign if successful.
AfterVerify(errs) == IF Len(errs) > 0 THEN "store" ELSE "sign"

\* A loop that stops at the first epoch that did not verify.
AfterSetHaltOnErrors(setErr, result) ==
    IF setErr # OK \/ result.errors # <<>> THEN "returned" ELSE "recv"

\* Where ProcessLoop goes after store.Set.
AfterSet(setErr, result) == IF setErr # OK THEN "returned" ELSE "recv"

\* An EpochPairs that leaves pairs open when it returns an error.
ClosePairsUnlessError(c, err) == [c EXCEPT !.pairsClosed = @ \/ err = OK]

\* "defer close(pairs)": pairs is closed when EpochPairs returns, whatever
\* it returns.
ClosePairs(c, err) == [c EXCEPT !.pairsClosed = TRUE]

\* The error ProcessLoop returns once it has received both errors of errc.
DrainedError(errA, errB) == IF errA # OK THEN errA ELSE errB

(***************************************************************************)
(* What the builder's caller can pass.                                     *)
(***************************************************************************)
\* Longest chain of applied mutations of the user's entry.
MaxChain == 2

K1 == PublicKey("k1")
K2 == PublicKey("k2")

KeyLists == {<<>>, <<K1>>, <<K2>>}

\* The owners of k1 and k2, someone who claims key id k1 without holding its
\* private key, and a signer whose Sign fails.
SignerLists ==
    LET s1 == Signer("k1", "k1", FALSE)
        s2 == Signer("k2", "k2", FALSE)
        imp == Signer("k1", "kx", FALSE)
        broken == Signer("k1", "k1", TRUE)
    IN  {<<>>, <<s1>>, <<s2>>, <<imp>>, <<s1, imp>>, <<imp, s1>>, <<broken>>}

\* An entry of another user's index.
ForeignLeaf ==
    ToLeafValue(MkEntry(BobIndex, NoCommitment, <<K1>>, NilHash, NoSignatures))

(***************************************************************************)
(* State.                                                                  *)
(***************************************************************************)
VARIABLES
    trusted,       \* the caller-owned trusted log root (Client.trusted)
    in,            \* the response of the call that has just returned
    err,           \* the error that call returned (NoCall between calls)
    profile,       \* the profile bytes Client.GetEntry returned
    smrOut,        \* the map root Client.GetEntry returned
    lastAccepted,  \* the log root of the call before, if it succeeded
    before,        \* the caller's trusted root when the last call was made
    m,             \* the mutation builder (entry.Mutation), Nil before NewMutation
    out,           \* the last builder operation and what it returned
    leaf,          \* the leaf the map stores at the user's index
    chain,         \* how many mutations were applied to that leaf
    upd,           \* the Client.Update call in progress, and Client.RetryCount
    hist,          \* the Client.ListHistory call in progress
    server,        \* the kinds of the epochs the server has published after epoch 0
    stream,        \* the epoch streamer (mutCli.StreamEpochs)
    former,        \* the pair former (EpochPairs)
    loop,          \* the verifier loop (ProcessLoop)
    store,         \* the results stored with store.Set, in the order of the calls
    ctl            \* the cancel signal and which channels are closed

builderVars == <<m, out, leaf, chain>>

updateVars == <<upd>>

historyVars == <<hist>>

monitorVars == <<server, stream, former, loop, store, ctl>>

\* What Client.Update does not touch either.
laterVars == <<historyVars, monitorVars>>

\* What neither Client.GetEntry, the verifier nor the builder touches.
restVars == <<updateVars, laterVars>>

vars == <<trusted, in, err, profile, smrOut, lastAccepted, before, m, out, leaf, chain,
          upd, hist, server, stream, former, loop, store, ctl>>

NoOut == [op |-> "none", arg |-> Nil, err |-> OK, req |-> Nil, signers |-> <<>>]

\* New: RetryCount is 1.
DefaultRetryCount == 1

NoUpdate ==
    [pc |-> "idle", RetryCount |-> DefaultRetryCount, i |-> 0, err |-> OK,
     signers |-> <<>>, submissions |-> 0, results |-> <<>>, answer |-> Nil]

\* No ListHistory call under way. arg is the start the caller passed, request
\* the last page request, seen the epochs of the pages received, next_start
\* the next start of the last page (-1 before the first page).
NoHistory ==
    [pc |-> "idle", arg |-> 0, start |-> 0, end |-> 0, epochsReceived |-> 0,
     epochsWant |-> 0, currentProfile |-> Nil, profiles |-> {}, err |-> OK,
     ret |-> Nil, requests |-> 0, request |-> Nil, seen |-> <<>>,
     next_start |-> -1]

\* ProcessLoop as it enters its loop: the streamer and EpochPairs started,
\* nothing sent, nothing stored, the context live. consumed and emitted are
\* the epochs EpochPairs has received and the pairs it has sent.
NoStream == [pc |-> "fetch", next |-> 0, epoch |-> Nil, err |-> OK]

NoFormer ==
    [pc |-> "recv", epochA |-> Nil, pair |-> Nil, err |-> OK,
     consumed |-> <<>>, emitted |-> <<>>]

NoLoop ==
    [pc |-> "recv", pair |-> Nil, fetchErr |-> OK, mutations |-> <<>>,
     errList |-> <<>>, smr |-> Nil, trusted |-> ZeroLogRoot,
     trustedBefore |-> ZeroLogRoot, errA |-> OK, errB |-> OK, drained |-> 0,
     ret |-> OK]

NoCtl ==
    [cancelled |-> FALSE, parent |-> FALSE, epochsClosed |-> FALSE,
     pairsClosed |-> FALSE]

\* No builder yet, an empty map, and no update under way.
InitBuilder ==
    /\ m = Nil
    /\ out = NoOut
    /\ leaf = EmptyLeaf
    /\ chain = 0
    /\ upd = NoUpdate
    /\ hist = NoHistory
    /\ server = <<>>
    /\ stream = NoStream
    /\ former = NoFormer
    /\ loop = NoLoop
    /\ store = <<>>
    /\ ctl = NoCtl

\* Client.New: the trusted root is the zero SignedLogRoot.
Init ==
    /\ trusted = ZeroLogRoot
    /\ in = Nil
    /\ err = NoCall
    /\ profile = Nil
    /\ smrOut = Nil
    /\ lastAccepted = Nil
    /\ before = trusted
    /\ InitBuilder

\* A client that hands out the committed data whatever the verifier said.
GetEntryReturnUnverified(rpcErr, verifyErr, e) ==
    IF rpcErr # OK THEN [profile |-> Nil, smr |-> Nil, err |-> rpcErr]
    ELSE IF e.committed = Nil THEN [profile |-> Nil, smr |-> e.smr, err |-> verifyErr]
    ELSE [profile |-> e.committed.data, smr |-> e.smr, err |-> verifyErr]

\* What Client.GetEntry returns after the RPC and the verification.
GetEntryReturn(rpcErr, verifyErr, e) ==
    IF rpcErr # OK THEN [profile |-> Nil, smr |-> Nil, err |-> rpcErr]
    ELSE IF verifyErr # OK THEN [profile |-> Nil, smr |-> Nil, err |-> verifyErr]
    ELSE IF e.committed = Nil THEN [profile |-> Nil, smr |-> e.smr, err |-> OK]
    ELSE [profile |-> e.committed.data, smr |-> e.smr, err |-> OK]

\* Client.GetEntry when the RPC fails.
GetEntryRpcFails ==
    LET r == GetEntryReturn("RpcError", OK, Nil)
    IN  /\ err = NoCall
        /\ in' = Nil
        /\ err' = r.err
        /\ profile' = r.profile
        /\ smrOut' = r.smr
        /\ before' = trusted
        /\ UNCHANGED <<trusted, lastAccepted>>
        /\ UNCHANGED <<builderVars, restVars>>

\* Client.GetEntry when the server answers.
GetEntry ==
    /\ err = NoCall
    /\ \E s \in SMRs, v \in VrfProofs, c \in Committeds, lr \in LogRoots,
          pc \in LogProofs, pi \in LogProofs :
         \E lp \in LeafProofs(s) :
           LET e == GetEntryResponse(v, c, lp, s, lr, pc, pi)
               res == VerifyGetEntryResponse(DomainID, AppID, UserID, trusted, e)
               r == GetEntryReturn(OK, res.err, e)
           IN  /\ trusted' = res.trusted
               /\ in' = e
               /\ err' = r.err
               /\ profile' = r.profile
               /\ smrOut' = r.smr
               /\ before' = trusted
               /\ UNCHANGED lastAccepted
               /\ UNCHANGED <<builderVars, restVars>>

\* The caller takes the result; the response message goes out of scope. What
\* is remembered of the call is the log root it presented, if it succeeded.
Return ==
    /\ err # NoCall
    /\ lastAccepted' = IF err = OK THEN in.log_root ELSE Nil
    /\ in' = Nil
    /\ err' = NoCall
    /\ profile' = Nil
    /\ smrOut' = Nil
    /\ UNCHANGED <<trusted, before>>
    /\ UNCHANGED <<builderVars, restVars>>

Next == GetEntry \/ GetEntryRpcFails \/ Return

Spec == Init /\ [][Next]_vars

(***************************************************************************)
(* The verifier called directly by a caller that owns a trusted root.      *)
(***************************************************************************)
CallerRoots ==
    {ZeroLogRoot} \cup {SignedLogRoot(LogKey, HonestLog(n)) : n \in 1..(MaxRev + 1)}

InitVerifier ==
    /\ trusted \in CallerRoots
    /\ in = Nil
    /\ err = NoCall
    /\ profile = Nil
    /\ smrOut = Nil
    /\ lastAccepted = Nil
    /\ before = trusted
    /\ InitBuilder

VerifyCall ==
    /\ err = NoCall
    /\ \E s \in SMRs, v \in VrfProofs, c \in Committeds, lr \in LogRoots,
          pc \in LogProofs, pi \in LogProofs :
         \E lp \in LeafProofs(s) :
           LET e == GetEntryResponse(v, c, lp, s, lr, pc, pi)
               res == VerifyGetEntryResponse(DomainID, AppID, UserID, trusted, e)
           IN  /\ trusted' = res.trusted
               /\ in' = e
               /\ err' = res.err
               /\ before' = trusted
               /\ UNCHANGED <<profile, smrOut, lastAccepted>>
               /\ UNCHANGED <<builderVars, restVars>>

NextVerifier == VerifyCall \/ Return

SpecVerifier == InitVerifier /\ [][NextVerifier]_vars

(***************************************************************************)
(* The mutation builder driven by its caller, and the map applying the     *)
(* mutations it emits.                                                     *)
(***************************************************************************)
clientVars == <<trusted, in, err, profile, smrOut, lastAccepted, before>>

\* The caller fills a builder in before it signs it: a builder that carries
\* signatures is signed again, applied, or replaced by a new one.
Unsigned == m # Nil /\ m.entry.signatures = NoSignatures

InitMutation == Init

BuilderOp(op, arg, r) ==
    /\ m' = r.m
    /\ out' = [op |-> op, arg |-> arg, err |-> r.err, req |-> Nil, signers |-> <<>>]
    /\ UNCHANGED <<leaf, chain>>
    /\ UNCHANGED <<clientVars, restVars>>

NewMutationCall ==
    /\ m' = NewMutation(AliceIndex, DomainID, AppID, UserID)
    /\ out' = [op |-> "NewMutation", arg |-> Nil, err |-> OK, req |-> Nil,
               signers |-> <<>>]
    /\ UNCHANGED <<leaf, chain>>
    /\ UNCHANGED <<clientVars, restVars>>

SetPreviousCall ==
    /\ Unsigned
    /\ \E oldValue \in {leaf, GarbageLeaf, ForeignLeaf}, copyPrevious \in BOOLEAN :
          BuilderOp("SetPrevious", <<oldValue, copyPrevious>>,
                    SetPrevious(m, oldValue, copyPrevious))

SetCommitmentCall ==
    /\ Unsigned
    /\ \E genErr \in {OK, "EntropyError"} :
          BuilderOp("SetCommitment", DataDEAD,
                    SetCommitment(m, DataDEAD, genErr, NonceZero))

ReplaceAuthorizedKeysCall ==
    /\ Unsigned
    /\ \E pubkeys \in KeyLists :
          BuilderOp("ReplaceAuthorizedKeys", pubkeys,
                    ReplaceAuthorizedKeys(m, pubkeys))

SerializeAndSignCall ==
    /\ m # Nil
    /\ \E signers \in SignerLists :
          LET r == SerializeAndSign(m, signers, trusted.tree_size)
          IN  /\ m' = r.m
              /\ out' = [op |-> "SerializeAndSign", arg |-> Nil, err |-> r.err,
                         req |-> r.req, signers |-> signers]
              /\ UNCHANGED <<leaf, chain>>
              /\ UNCHANGED <<clientVars, restVars>>

\* The map applies the emitted mutation to the leaf it stores, when Mutate
\* accepts it there; the builder that made it is dropped.
Apply ==
    /\ out.req # Nil
    /\ chain < MaxChain
    /\ LET mutation == out.req.entry_update.mutation
       IN  /\ Mutate(FromLeafValue(leaf).entry, mutation) = OK
           /\ leaf' = ToLeafValue(mutation)
    /\ chain' = chain + 1
    /\ m' = Nil
    /\ out' = NoOut
    /\ UNCHANGED <<clientVars, restVars>>

\* The mutation the map has just applied is submitted to it a second time.
\* The map runs Mutate on it against the leaf it stores now, and stores the
\* result only when Mutate accepts it.
Resubmit ==
    /\ chain >= 1
    /\ m = Nil
    /\ out = NoOut
    /\ LET prevEntry == FromLeafValue(leaf).entry
           mutation == FromLeafValue(leaf).entry
           e == Mutate(prevEntry, mutation)
       IN  /\ out' = [op |-> "Resubmit", arg |-> mutation, err |-> e, req |-> Nil,
                      signers |-> <<>>]
           /\ leaf' = IF e = OK THEN ToLeafValue(mutation) ELSE leaf
    /\ UNCHANGED <<m, chain>>
    /\ UNCHANGED <<clientVars, restVars>>

NextMutation ==
    \/ NewMutationCall
    \/ SetPreviousCall
    \/ SetCommitmentCall
    \/ ReplaceAuthorizedKeysCall
    \/ SerializeAndSignCall
    \/ Apply
    \/ Resubmit

SpecMutation == InitMutation /\ [][NextMutation]_vars

(***************************************************************************)
(* Client.Update against a server that answers each RPC as it likes.       *)
(***************************************************************************)
\* Largest RetryCount the caller sets.
MaxRetryCount == 2

\* A response that proves leafValue to be the map's leaf for the user.
ProofOfLeaf(leafValue, inclusion) ==
    LET smr == SignedSMR(MapKey, 0, MapWith(leafValue))
    IN  GetEntryResponse(VrfProve(VrfKey, VrfAlpha(DomainID, AppID, UserID)), Nil,
                         LeafProof(leafValue, inclusion), smr,
                         SignedLogRoot(LogKey, <<JsonMarshal(smr)>>),
                         GenuineProof, GenuineProof)

\* What the server can answer while it stores leafValue: an RPC error, the
\* proof of that leaf, or a proof whose sibling hashes were tampered with.
Answers(leafValue) ==
    {RpcAnswer("RpcError", Nil),
     RpcAnswer(OK, ProofOfLeaf(leafValue, MapPath(MapWith(leafValue), AliceIndex))),
     RpcAnswer(OK, ProofOfLeaf(leafValue, TamperedPath(AliceIndex)))}

\* What another device of the user makes of the entry in leafValue: the
\* profile replaced, the keys kept or set to k1, signed by the owner of k1.
RivalUpdate(leafValue) ==
    LET nm == VerifierNewMutation(DomainID, AppID, UserID, DataFlipped, <<K1>>,
                                  VrfProve(VrfKey, VrfAlpha(DomainID, AppID, UserID)),
                                  leafValue, OK, NonceZero)
    IN  IF nm.err # OK THEN [err |-> nm.err, req |-> Nil]
        ELSE SerializeAndSign(nm.m, <<Signer("k1", "k1", FALSE)>>, 0)

InitUpdate == Init

\* The caller sets the exported field RetryCount between updates.
SetRetryCount ==
    /\ upd.pc = "idle"
    /\ \E n \in 0..MaxRetryCount : upd' = [upd EXCEPT !.RetryCount = n]
    /\ UNCHANGED <<clientVars, builderVars, laterVars>>

\* Update up to the first call of Retry: fetch the entry, verify the
\* response, make the builder.
UpdateBegin ==
    /\ upd.pc = "idle"
    /\ \E answer \in Answers(leaf), signers \in SignerLists,
          authorizedKeys \in KeyLists, genErr \in {OK, "EntropyError"} :
          LET v == VerifyGetEntryResponse(DomainID, AppID, UserID, trusted,
                                          answer.proof)
              nm == VerifierNewMutation(DomainID, AppID, UserID, DataDEAD,
                                        authorizedKeys, answer.proof.vrf_proof,
                                        GetLeafValue(answer.proof.leaf_proof),
                                        genErr, NonceZero)
          IN  IF answer.err # OK
              THEN /\ upd' = [upd EXCEPT !.pc = "done", !.err = answer.err]
                   /\ UNCHANGED <<trusted, m>>
              ELSE IF v.err # OK
              THEN /\ upd' = [upd EXCEPT !.pc = "done", !.err = v.err]
                   /\ trusted' = v.trusted
                   /\ UNCHANGED m
              ELSE IF nm.err # OK
              THEN /\ upd' = [upd EXCEPT !.pc = "done", !.err = nm.err]
                   /\ trusted' = v.trusted
                   /\ UNCHANGED m
              ELSE /\ upd' = [upd EXCEPT !.pc = "first", !.signers = signers]
                   /\ trusted' = v.trusted
                   /\ m' = nm.m
    /\ UNCHANGED <<in, err, profile, smrOut, lastAccepted, before>>
    /\ UNCHANGED <<out, leaf, chain, laterVars>>

\* One call of Retry by Update. The server answers with the leaf it stores;
\* by then it may have applied the submitted mutation, or the mutation of
\* another device that reached it first.
Attempt(pcAfter, iAfter) ==
    \E s \in {SerializeAndSign(m, upd.signers, trusted.tree_size)} :
    \E rival \in {RivalUpdate(leaf)} :
      LET applied == IF s.err = OK THEN ToLeafValue(s.req.entry_update.mutation)
                     ELSE leaf
          canApply == /\ s.err = OK
                      /\ chain < MaxChain
                      /\ Mutate(FromLeafValue(leaf).entry,
                                s.req.entry_update.mutation) = OK
          overtaken == /\ s.err = OK
                       /\ chain < MaxChain
                       /\ rival.err = OK
      IN  \E shown \in {leaf} \cup (IF canApply THEN {applied} ELSE {})
                           \cup (IF overtaken
                                 THEN {ToLeafValue(rival.req.entry_update.mutation)}
                                 ELSE {}) :
            \E answer \in Answers(shown) :
              \E r \in {Retry(DomainID, s, trusted, answer)} :
                /\ m' = r.m
                /\ trusted' = r.trusted
                /\ upd' = [upd EXCEPT
                             !.pc = pcAfter, !.i = iAfter, !.err = r.err,
                             !.answer = IF r.submitted THEN answer ELSE Nil,
                             !.submissions = @ + (IF r.submitted THEN 1 ELSE 0),
                             !.results = Append(@, r.err)]
                /\ leaf' = IF r.submitted THEN shown ELSE leaf
                /\ chain' = IF r.submitted /\ shown # leaf THEN chain + 1 ELSE chain
                /\ UNCHANGED <<in, err, profile, smrOut, lastAccepted, before>>
                /\ UNCHANGED <<out, laterVars>>

\* "err = c.Retry(ctx, m, signers, opts...)" ahead of the loop.
FirstAttempt ==
    /\ upd.pc = "first"
    /\ Attempt("loop", 0)

\* One round of the loop: the condition holds, sleep, Retry, i++.
LoopAttempt ==
    /\ upd.pc = "loop"
    /\ ShouldRetry(upd.err, upd.i, upd.RetryCount)
    /\ Attempt("loop", upd.i + 1)

\* The condition of the loop fails: "return m, err".
LoopExit ==
    /\ upd.pc = "loop"
    /\ ~ShouldRetry(upd.err, upd.i, upd.RetryCount)
    /\ upd' = [upd EXCEPT !.pc = "done"]
    /\ UNCHANGED <<clientVars, builderVars, laterVars>>

\* The caller takes the result of Update; a later update makes a new builder.
UpdateReturn ==
    /\ upd.pc = "done"
    /\ upd' = [NoUpdate EXCEPT !.RetryCount = upd.RetryCount]
    /\ m' = Nil
    /\ UNCHANGED <<clientVars, out, leaf, chain, laterVars>>

NextUpdate ==
    \/ SetRetryCount
    \/ UpdateBegin
    \/ FirstAttempt
    \/ LoopAttempt
    \/ LoopExit
    \/ UpdateReturn

\* Update is between its first call of Retry and its return.
Running == upd.pc \in {"first", "loop"}

\* Update is sequential code: a call that has begun keeps running. This is
\* weak fairness of the steps of a running Update, WF_vars(FirstAttempt \/
\* LoopAttempt \/ LoopExit), written with the condition under which such a
\* step is enabled: Running.
SpecUpdate ==
    /\ InitUpdate /\ [][NextUpdate]_vars
    /\ ([]<>(~Running) \/ []<><<FirstAttempt \/ LoopAttempt \/ LoopExit>>_vars)

(***************************************************************************)
(* Client.ListHistory against a server that pages as it likes.             *)
(***************************************************************************)
\* Largest epoch a caller asks for.
MaxEpoch == 2

\* Most values in one page of the server.
MaxPage == 2

\* Most page requests of one call that are followed.
MaxRequests == 4

\* What the server can send for one epoch: no entry yet, an entry with one of
\* two profiles, or an entry under sibling hashes that were tampered with.
ValueKinds == {"absent", "dead", "flipped", "tampered"}

\* The server's response for the user's entry at map revision rev.
EpochValue(rev, kind) ==
    LET data == IF kind = "flipped" THEN DataFlipped ELSE DataDEAD
        leafValue == IF kind = "absent" THEN EmptyLeaf
                     ELSE ToLeafValue(ProfileEntry(data))
        smr == SignedSMR(MapKey, rev, MapWith(leafValue))
        log == [i \in 1..(rev + 1) |-> IF i = rev + 1 THEN JsonMarshal(smr)
                                       ELSE JsonMarshal(HonestSMR(i - 1))]
    IN  GetEntryResponse(VrfProve(VrfKey, VrfAlpha(DomainID, AppID, UserID)),
                         IF kind = "absent" THEN Nil
                         ELSE [key |-> NonceZero, data |-> data],
                         LeafProof(leafValue,
                                   IF kind = "tampered" THEN TamperedPath(AliceIndex)
                                   ELSE MapPath(smr.root_hash, AliceIndex)),
                         smr, SignedLogRoot(LogKey, log), GenuineProof, GenuineProof)

InitHistory == Init

historyRest == <<in, err, profile, smrOut, lastAccepted, before, builderVars,
                 updateVars, monitorVars>>

\* ListHistory up to its loop: a negative start is refused.
ListHistoryCall ==
    /\ hist.pc = "idle"
    /\ \E start \in (-1)..MaxEpoch, end \in 0..MaxEpoch :
         hist' = IF start < 0
                 THEN [NoHistory EXCEPT !.pc = "done", !.arg = start, !.end = end,
                                        !.err = "InvalidStart"]
                 ELSE [NoHistory EXCEPT !.pc = "loop", !.arg = start,
                                        !.start = start, !.end = end,
                                        !.epochsWant = end - start + 1]
    /\ UNCHANGED <<trusted, historyRest>>

\* One round of the loop when the page request fails.
ListHistoryRpcFails ==
    /\ hist.pc = "loop"
    /\ hist.epochsReceived < hist.epochsWant
    /\ hist.requests < MaxRequests
    /\ hist' = [hist EXCEPT
                  !.pc = "done", !.err = "RpcError", !.ret = Nil,
                  !.requests = @ + 1,
                  !.request = ListEntryHistoryRequest(DomainID, UserID, AppID,
                                                      hist.start, hist.end)]
    /\ UNCHANGED <<trusted, historyRest>>

\* One round of the loop when the server answers with a page: count its
\* values, verify and record each, then break or move start.
ListHistoryPage ==
    /\ hist.pc = "loop"
    /\ hist.epochsReceived < hist.epochsWant
    /\ hist.requests < MaxRequests
    /\ \E n \in 0..MaxPage, more \in BOOLEAN :
       \E kinds \in [1..n -> ValueKinds] :
       \E resp \in {ListEntryHistoryResponse(
                       [i \in 1..n |-> EpochValue(hist.start + i - 1, kinds[i])],
                       IF more THEN hist.start + n ELSE 0)} :
       \E st \in {HistoryValues(DomainID, AppID, UserID, resp.values,
                                [trusted |-> trusted,
                                 currentProfile |-> hist.currentProfile,
                                 profiles |-> hist.profiles, err |-> OK])} :
         /\ trusted' = st.trusted
         /\ hist' = [hist EXCEPT
                       !.pc = IF st.err # OK THEN "done"
                              ELSE IF resp.next_start = 0 THEN "after"
                              ELSE "loop",
                       !.err = st.err,
                       !.start = IF st.err = OK /\ resp.next_start # 0
                                 THEN resp.next_start ELSE @,
                       !.epochsReceived = @ + Len(resp.values),
                       !.currentProfile = st.currentProfile,
                       !.profiles = st.profiles,
                       !.next_start = resp.next_start,
                       !.requests = @ + 1,
                       !.request = ListEntryHistoryRequest(DomainID, UserID, AppID,
                                                           hist.start, hist.end),
                       !.seen = @ \o [i \in 1..n |->
                                        [rev |-> hist.start + i - 1,
                                         kind |-> kinds[i]]]]
    /\ UNCHANGED historyRest

\* The condition of the loop fails.
ListHistoryLoopEnd ==
    /\ hist.pc = "loop"
    /\ ~(hist.epochsReceived < hist.epochsWant)
    /\ hist' = [hist EXCEPT !.pc = "after"]
    /\ UNCHANGED <<trusted, historyRest>>

\* After the loop: ErrIncomplete or the map of profiles.
ListHistoryAfter ==
    /\ hist.pc = "after"
    /\ \E r \in {ListHistoryResult(hist.epochsReceived, hist.epochsWant,
                                   hist.profiles)} :
         hist' = [hist EXCEPT !.pc = "done", !.err = r.err, !.ret = r.profiles]
    /\ UNCHANGED <<trusted, historyRest>>

\* The caller takes the result.
ListHistoryReturn ==
    /\ hist.pc = "done"
    /\ hist' = NoHistory
    /\ UNCHANGED <<trusted, historyRest>>

NextHistory ==
    \/ ListHistoryCall
    \/ ListHistoryRpcFails
    \/ ListHistoryPage
    \/ ListHistoryLoopEnd
    \/ ListHistoryAfter
    \/ ListHistoryReturn

SpecHistory == InitHistory /\ [][NextHistory]_vars

(***************************************************************************)
(* Monitor.ProcessLoop: the epoch streamer, the pair former (EpochPairs)   *)
(* and the verifier loop, joined by unbuffered channels.                   *)
(***************************************************************************)
\* The last map revision the server publishes.
MaxEpochs == 2

\* What the server publishes as the next epoch: the user's entry updated and
\* the update delivered, the entry updated and the update held back, or the
\* map unchanged under a root the map's key never signed.
EpochKinds == {"update", "omitted", "forged"}

\* An update of the entry in prevLeaf, signed by the owner of k1.
UpdateOf(prevLeaf) ==
    LET nm == VerifierNewMutation(DomainID, AppID, UserID, DataDEAD, <<K1>>,
                                  VrfProve(VrfKey, VrfAlpha(DomainID, AppID, UserID)),
                                  prevLeaf, OK, NonceZero)
    IN  SerializeAndSign(nm.m, <<Signer("k1", "k1", FALSE)>>, 0).req.entry_update.mutation

\* The user's leaf after the epochs of kinds.
RECURSIVE LeafAfter(_)
LeafAfter(kinds) ==
    IF kinds = <<>> THEN EmptyLeaf
    ELSE LET prev == LeafAfter(SubSeq(kinds, 1, Len(kinds) - 1))
         IN  IF kinds[Len(kinds)] \in {"update", "omitted"}
             THEN ToLeafValue(UpdateOf(prev))
             ELSE prev

\* The map root of revision Len(kinds).
SmrAt(kinds) ==
    SignedSMR(IF kinds # <<>> /\ kinds[Len(kinds)] = "forged" THEN AttackerKey
              ELSE MapKey,
              Len(kinds), MapWith(LeafAfter(kinds)))

\* The epoch of revision Len(kinds): its map root is the log's last leaf.
EpochAt(kinds) ==
    Epoch(SmrAt(kinds),
          SignedLogRoot(LogKey, [i \in 1..(Len(kinds) + 1) |->
                                    JsonMarshal(SmrAt(SubSeq(kinds, 1, i - 1)))]),
          GenuineProof, GenuineProof)

\* The mutation set the server delivers for revision Len(kinds).
MutationsAt(kinds) ==
    IF kinds # <<>> /\ kinds[Len(kinds)] = "update"
    THEN LET prev == LeafAfter(SubSeq(kinds, 1, Len(kinds) - 1))
         IN  <<MutationProof(UpdateOf(prev),
                             LeafProof(prev, MapPath(MapWith(prev), AliceIndex)))>>
    ELSE <<>>

InitMonitor == Init

monitorRest == <<clientVars, builderVars, updateVars, historyVars>>

\* The context of ProcessLoop's caller is cancelled, and cctx with it.
ParentCancel ==
    /\ ~ctl.parent
    /\ ctl' = [ctl EXCEPT !.parent = TRUE, !.cancelled = TRUE]
    /\ UNCHANGED <<server, stream, former, loop, store, monitorRest>>

\* The streamer gets the next epoch from the server.
StreamFetch ==
    /\ stream.pc = "fetch"
    /\ ~ctl.cancelled
    /\ stream.next <= MaxEpochs
    /\ \E kinds \in (IF stream.next = 0 THEN {server}
                     ELSE {Append(server, k) : k \in EpochKinds}) :
       \E epoch \in {EpochAt(kinds)} :
         /\ server' = kinds
         /\ stream' = [stream EXCEPT !.pc = "send", !.epoch = epoch]
    /\ UNCHANGED <<former, loop, store, ctl, monitorRest>>

\* The streamer's RPC fails: it returns the error and closes epochs.
StreamFails ==
    /\ stream.pc = "fetch"
    /\ ~ctl.cancelled
    /\ stream' = [stream EXCEPT !.pc = "report", !.err = "StreamError"]
    /\ ctl' = [ctl EXCEPT !.epochsClosed = TRUE]
    /\ UNCHANGED <<server, former, loop, store, monitorRest>>

\* The streamer sees its context done: it returns ctx.Err() and closes epochs.
StreamCancelled ==
    /\ stream.pc \in {"fetch", "send"}
    /\ ctl.cancelled
    /\ stream' = [stream EXCEPT !.pc = "report", !.err = "Canceled"]
    /\ ctl' = [ctl EXCEPT !.epochsClosed = TRUE]
    /\ UNCHANGED <<server, former, loop, store, monitorRest>>

\* An epoch passes from the streamer to EpochPairs: the first one becomes
\* epochA, every later one makes a pair with epochA.
PassEpoch ==
    /\ stream.pc = "send"
    /\ former.pc = "recv"
    /\ stream' = [stream EXCEPT !.pc = "fetch", !.next = @ + 1, !.epoch = Nil]
    /\ former' = IF former.epochA = Nil
                 THEN [former EXCEPT !.epochA = stream.epoch,
                                     !.consumed = Append(@, stream.epoch)]
                 ELSE [former EXCEPT !.pc = "send",
                                     !.pair = EpochPair(former.epochA, stream.epoch),
                                     !.consumed = Append(@, stream.epoch)]
    /\ UNCHANGED <<server, loop, store, ctl, monitorRest>>

\* EpochPairs finds epochs closed: it returns nil and closes pairs.
FormerEnd ==
    /\ former.pc = "recv"
    /\ ctl.epochsClosed
    /\ former' = [former EXCEPT !.pc = "report", !.err = OK]
    /\ ctl' = ClosePairs(ctl, OK)
    /\ UNCHANGED <<server, stream, loop, store, monitorRest>>

\* EpochPairs, with a pair to send, sees its context done: it returns
\* ctx.Err() and closes pairs.
FormerCancelled ==
    /\ former.pc = "send"
    /\ ctl.cancelled
    /\ former' = [former EXCEPT !.pc = "report", !.err = "Canceled", !.pair = Nil]
    /\ ctl' = ClosePairs(ctl, "Canceled")
    /\ UNCHANGED <<server, stream, loop, store, monitorRest>>

\* A pair passes from EpochPairs to ProcessLoop.
PassPair ==
    /\ former.pc = "send"
    /\ loop.pc = "recv"
    /\ former' = [former EXCEPT !.pc = "recv", !.pair = Nil,
                                !.epochA = EpochAAfterSend(former.pair.B),
                                !.emitted = Append(@, former.pair)]
    /\ loop' = [loop EXCEPT !.pc = "fetch", !.pair = former.pair]
    /\ UNCHANGED <<server, stream, store, ctl, monitorRest>>

\* ProcessLoop finds pairs closed and goes on to collect the two errors.
LoopPairsClosed ==
    /\ loop.pc = "recv"
    /\ ctl.pairsClosed
    /\ loop' = [loop EXCEPT !.pc = "drain"]
    /\ UNCHANGED <<server, stream, former, store, ctl, monitorRest>>

\* mutCli.EpochMutations(ctx, pair.B): on an error ProcessLoop returns it,
\* and the deferred cancel runs.
LoopFetch ==
    /\ loop.pc = "fetch"
    /\ \E fetchErr \in {OK, "FetchError"} :
       \E pcAfter \in {AfterFetch(fetchErr)} :
       \E mutations \in {MutationsAt(SubSeq(server, 1, loop.pair.B.smr.map_revision))} :
         /\ loop' = [loop EXCEPT
                       !.pc = pcAfter,
                       !.fetchErr = fetchErr,
                       !.mutations = IF fetchErr = OK THEN mutations ELSE <<>>,
                       !.ret = IF pcAfter = "returned" THEN fetchErr ELSE @]
         /\ ctl' = [ctl EXCEPT !.cancelled = @ \/ pcAfter = "returned"]
    /\ UNCHANGED <<server, stream, former, store, monitorRest>>

\* m.VerifyEpochMutations(pair.A, pair.B, mutations).
LoopVerify ==
    /\ loop.pc = "verify"
    /\ \E v \in {VerifyEpochMutations(loop.trusted, loop.pair.A, loop.pair.B,
                                      loop.mutations)} :
         loop' = [loop EXCEPT !.pc = AfterVerify(v.errs),
                              !.errList = v.errs, !.smr = Nil,
                              !.trustedBefore = loop.trusted,
                              !.trusted = v.trusted]
    /\ UNCHANGED <<server, stream, former, store, ctl, monitorRest>>

\* m.signMapRoot(pair.B.GetSmr()): on an error ProcessLoop returns it.
LoopSign ==
    /\ loop.pc = "sign"
    /\ \E signErr \in {OK, "SignError"} :
       \E s \in {signMapRoot(loop.pair.B.smr, signErr)} :
         /\ loop' = IF s.err # OK
                    THEN [loop EXCEPT !.pc = "returned", !.ret = s.err]
                    ELSE [loop EXCEPT !.pc = "store", !.smr = s.smr]
         /\ ctl' = [ctl EXCEPT !.cancelled = @ \/ s.err # OK]
    /\ UNCHANGED <<server, stream, former, store, monitorRest>>

\* m.store.Set(revision, result): on an error ProcessLoop returns it. The
\* entry keeps, next to the result, what the verification was given.
LoopStore ==
    /\ loop.pc = "store"
    /\ \E setErr \in {OK, "StoreError"} :
       \E result \in {Result(loop.smr, loop.errList)} :
       \E pcAfter \in {AfterSet(setErr, result)} :
         /\ store' = IF setErr # OK THEN store
                     ELSE Append(store,
                                 [revision |-> loop.pair.B.smr.map_revision,
                                  result |-> result,
                                  pair |-> loop.pair,
                                  mutations |-> loop.mutations,
                                  trusted |-> loop.trustedBefore])
         /\ loop' = [loop EXCEPT
                       !.pc = pcAfter,
                       !.ret = IF pcAfter = "returned" THEN setErr ELSE @]
         /\ ctl' = [ctl EXCEPT !.cancelled = @ \/ pcAfter = "returned"]
    /\ UNCHANGED <<server, stream, former, monitorRest>>

\* What ProcessLoop does with an error received from errc: the first is
\* errA, the second errB, and then it returns.
Drained(e) ==
    IF loop.drained = 0
    THEN [loop EXCEPT !.errA = e, !.drained = 1]
    ELSE [loop EXCEPT !.errB = e, !.drained = 2, !.pc = "returned",
                      !.ret = DrainedError(loop.errA, e)]

\* The streamer's error passes through errc to ProcessLoop.
DrainStream ==
    /\ loop.pc = "drain"
    /\ stream.pc = "report"
    /\ stream' = [stream EXCEPT !.pc = "done"]
    /\ loop' = Drained(stream.err)
    /\ ctl' = [ctl EXCEPT !.cancelled = @ \/ loop.drained = 1]
    /\ UNCHANGED <<server, former, store, monitorRest>>

\* The error of EpochPairs passes through errc to ProcessLoop.
DrainFormer ==
    /\ loop.pc = "drain"
    /\ former.pc = "report"
    /\ former' = [former EXCEPT !.pc = "done"]
    /\ loop' = Drained(former.err)
    /\ ctl' = [ctl EXCEPT !.cancelled = @ \/ loop.drained = 1]
    /\ UNCHANGED <<server, stream, store, monitorRest>>

NextMonitor ==
    \/ ParentCancel
    \/ StreamFetch
    \/ StreamFails
    \/ StreamCancelled
    \/ PassEpoch
    \/ FormerEnd
    \/ FormerCancelled
    \/ PassPair
    \/ LoopPairsClosed
    \/ LoopFetch
    \/ LoopVerify
    \/ LoopSign
    \/ LoopStore
    \/ DrainStream
    \/ DrainFormer

\* ProcessLoop has a pair in hand.
LoopBusy == loop.pc \in {"fetch", "verify", "sign", "store"}

\* A step of the body of ProcessLoop's loop: LoopFetch, LoopVerify, LoopSign
\* and LoopStore are the steps that move ProcessLoop on with a pair in hand.
LoopStep == LoopBusy /\ loop'.pc # loop.pc

\* The body of ProcessLoop's loop is sequential code: with a pair in hand it
\* keeps running. This is weak fairness of its steps, WF_vars(LoopFetch \/
\* LoopVerify \/ LoopSign \/ LoopStore), written with the condition under
\* which such a step is enabled: LoopBusy.
SpecMonitor ==
    /\ InitMonitor /\ [][NextMonitor]_vars
    /\ ([]<>(~LoopBusy) \/ []<><<LoopStep>>_vars)

(***************************************************************************)
(* Properties of the response verifier and of Client.GetEntry.             *)
(***************************************************************************)
Called == err # NoCall /\ in # Nil

\* The error of each step of the verification of response e against the
\* trusted root t, in the order decode, commitment, VRF, sparse Merkle
\* inclusion, map root signature, log consistency, log inclusion.
StepErrors(t, e) ==
    LET dec == FromLeafValue(GetLeafValue(e.leaf_proof))
        idx == Index(e.vrf_proof, DomainID, AppID, UserID)
    IN  <<dec.err,
          CommitmentStep(UserID, AppID, dec.entry, e),
          idx.err,
          SparseStep(idx.index, e),
          SmrSignatureStep(e),
          LogRootStep(t, e),
          LogInclusionStep(e)>>

FailingSteps(t, e) == {i \in 1..7 : StepErrors(t, e)[i] # OK}

Earliest(S) == CHOOSE i \in S : \A j \in S : i <= j

\* C1: after a successful verify_get_entry the caller-owned trusted log
\* root equals the log root of the response.
C1_SuccessOverwritesTrusted ==
    (Called /\ err = OK) => trusted = in.log_root

\* C2: whenever verify_get_entry returns an error, at whichever step, the
\* caller-owned trusted log root is what it was before the call.
C2_ErrorKeepsTrusted ==
    (Called /\ err # OK) => trusted = before

\* C2 witness: the call failed at log inclusion, after the log root step had
\* accepted a root other than the trusted one.
C2_Witness ==
    /\ Called
    /\ err = "LogInclusionInvalid"
    /\ before.tree_size > 0
    /\ in.log_root # before
    /\ trusted = before

\* C3: when the call before succeeded with a log root of size n > 0 and this
\* call presents a log root of the same size with another root hash (all
\* the steps before the log root step passing), this call fails with a log
\* consistency error.
C3_ForkedLogRejected ==
    (/\ Called
     /\ lastAccepted # Nil
     /\ lastAccepted.tree_size > 0
     /\ in.log_root.tree_size = lastAccepted.tree_size
     /\ in.log_root.root_hash # lastAccepted.root_hash
     /\ FailingSteps(before, in) \cap (1..5) = {})
    => err = "LogConsistencyInvalid"

\* C4: the trusted root's tree size never decreases, over calls that succeed
\* and calls that fail, and a response whose log root is smaller than the
\* trusted root is rejected.
C4_TrustNeverRegresses ==
    [][/\ trusted'.tree_size >= trusted.tree_size
       /\ (/\ err = NoCall
           /\ err' # NoCall
           /\ in' # Nil
           /\ in'.log_root.tree_size < trusted.tree_size)
          => err' # OK]_vars

\* C4 witness: a response that passes the first five steps and presents a log
\* root smaller than the trusted one has been rejected as a rewind.
C4_Witness ==
    /\ Called
    /\ in.log_root.tree_size < before.tree_size
    /\ err = "LogRewind"
    /\ trusted = before

\* C5: the checks run in the order decode, commitment, VRF, sparse Merkle
\* inclusion, map root signature, log consistency, log inclusion; the call
\* succeeds only if every check passes and otherwise returns the error of the
\* earliest failing check.
C5_EarliestFailingStep ==
    Called =>
        IF FailingSteps(before, in) = {} THEN err = OK
        ELSE err = StepErrors(before, in)[Earliest(FailingSteps(before, in))]

\* C5 witness: several checks fail (commitment, sparse proof, map root
\* signature and log inclusion) and the error is the commitment's.
C5_Witness ==
    /\ Called
    /\ {2, 4, 5, 7} \subseteq FailingSteps(before, in)
    /\ 1 \notin FailingSteps(before, in)
    /\ err = "CommitmentMismatch"

\* C6: without committed data only an empty leaf (a proof of absence) is
\* accepted; a present leaf without committed data is not.
C6_PresentLeafNeedsCommitted ==
    (Called /\ err = OK /\ in.committed = Nil) => in.leaf_proof.leaf = EmptyLeaf

\* C7: Client.GetEntry returns no data and no map root when the call fails;
\* when verification passes it returns the map root, with a nil profile if
\* committed is absent and exactly committed.data otherwise; and it succeeds
\* only for a response that passes the verification.
C7_GetEntrySurfacesVerifiedData ==
    err # NoCall =>
        /\ err # OK => (profile = Nil /\ smrOut = Nil)
        /\ err = OK =>
             /\ in # Nil
             /\ VerifyGetEntryResponse(DomainID, AppID, UserID, before, in).err = OK
             /\ smrOut = in.smr
             /\ profile = IF in.committed = Nil THEN Nil ELSE in.committed.data
        /\ (in # Nil
            /\ VerifyGetEntryResponse(DomainID, AppID, UserID, before, in).err # OK)
           => err # OK

\* C7 witness: a verified response with committed data has been returned.
C7_Witness ==
    /\ err = OK
    /\ in.committed # Nil
    /\ profile = DataDEAD
    /\ smrOut = in.smr

\* C8: a response with a nil leaf proof is rejected with ErrNilProof, whatever
\* its other fields are.
C8_NilProofError ==
    (Called /\ in.leaf_proof = Nil) => err = "ErrNilProof"

(***************************************************************************)
(* Properties of the mutation builder.                                     *)
(***************************************************************************)
Signed == out.op = "SerializeAndSign"

\* Some signer could not sign: sign gives up and the entry gets no signature.
SignerFailed(signers) == \E i \in DOMAIN signers : signers[i].fails

\* The signature filed under key's id is the one made with key's private key:
\* the last signer that uses this key id holds it.
SignatureStands(key, signers) ==
    \E i \in DOMAIN signers :
        /\ signers[i].key_id = key.key_id
        /\ signers[i].priv = key.key
        /\ \A j \in DOMAIN signers : j > i => signers[j].key_id # key.key_id

SignedByOneOf(keys, signers) ==
    /\ ~SignerFailed(signers)
    /\ \E k \in DOMAIN keys : SignatureStands(keys[k], signers)

\* The authorization rule: (a) without a previous entry the signatures match
\* the new authorized keys, (b) with one, a key it authorizes has signed.
Authorized ==
    IF m.prevEntry = Nil
    THEN SignedByOneOf(m.entry.authorized_keys, out.signers)
    ELSE SignedByOneOf(m.prevEntry.authorized_keys, out.signers)

\* The checks of mutate other than authorization and the previous hash.
RemainingChecksPass ==
    /\ m.entry.authorized_keys # <<>>
    /\ m.prevEntry # Nil => m.entry.index = m.prevEntry.index

\* C9 as stated: SerializeAndSign emits a submission if and only if the
\* mutation is authorized by rule (a) or (b), and in every other case it
\* fails with UnauthorizedSignature and emits nothing.
C9_AcceptsIffAuthorized ==
    Signed =>
        /\ (out.err = OK /\ out.req # Nil) <=> Authorized
        /\ ~Authorized => out.err = "UnauthorizedSignature" /\ out.req = Nil

\* C9 amended: SerializeAndSign accepts only authorized mutations; one that
\* is not authorized is rejected without a submission, with
\* UnauthorizedSignature unless a signer failed to sign (then with the
\* signer's error); an authorized one is accepted exactly when the remaining
\* checks of mutate pass, and otherwise rejected with MissingKey or
\* IndexMismatch, again without a submission.
C9_AuthorizationRule ==
    Signed =>
        /\ out.err = OK => Authorized /\ out.req # Nil
        /\ ~Authorized =>
              /\ out.req = Nil
              /\ out.err = IF SignerFailed(out.signers) THEN "SignError"
                           ELSE "UnauthorizedSignature"
        /\ Authorized /\ RemainingChecksPass =>
              /\ out.err = OK
              /\ out.req.entry_update.mutation = m.entry
        /\ Authorized /\ ~RemainingChecksPass =>
              /\ out.req = Nil
              /\ out.err \in {"MissingKey", "IndexMismatch"}

\* C9 witness: a mutation of an existing entry, signed by a key the previous
\* entry authorizes, has been accepted and emitted.
C9_Witness ==
    /\ Signed
    /\ m.prevEntry # Nil
    /\ Authorized
    /\ out.err = OK
    /\ out.req.entry_update.mutation = m.entry

\* The builder was signed on top of the entry the map stores, which is the
\* last mutation of the chain that was applied.
OnChain ==
    /\ Signed
    /\ chain >= 1
    /\ m.prevEntry = FromLeafValue(leaf).entry

\* C10: along a chain of applied mutations, a mutation that names a new
\* authorized key set is accepted when a key of the previous entry's set has
\* signed it, and rejected when only other keys have, the keys of the new set
\* included. After a rotation is applied the rotated set is the previous one.
C10_RotationAgainstPreviousKeys ==
    OnChain /\ m.entry.authorized_keys # <<>> =>
        /\ SignedByOneOf(m.prevEntry.authorized_keys, out.signers) =>
              out.err = OK /\ out.req # Nil
        /\ ~SignedByOneOf(m.prevEntry.authorized_keys, out.signers) =>
              out.err # OK /\ out.req = Nil

\* C10 witness: {K1} was rotated to {K2} and the rotation applied; the next
\* mutation, signed by the owner of K1 only, is rejected.
C10_Witness ==
    /\ OnChain
    /\ chain = 2
    /\ m.prevEntry.authorized_keys = <<K2>>
    /\ m.prevEntry.previous[2].authorized_keys = <<K1>>
    /\ m.entry.authorized_keys = <<K2>>
    /\ SignedByOneOf(<<K1>>, out.signers)
    /\ out.err = "UnauthorizedSignature"
    /\ out.req = Nil

\* C11: a mutation that is identical to the entry it is applied to is
\* rejected by mutate with Replay and with no other error, so the map keeps
\* its leaf when an applied mutation is submitted a second time.
C11_ReplayRejected ==
    out.op = "Resubmit" =>
        /\ out.arg = FromLeafValue(leaf).entry
        /\ out.err = "Replay"
        /\ Mutate(out.arg, out.arg) = "Replay"

\* C11 witness: a mutation with a previous entry was applied and submitted
\* again, and the second submission failed.
C11_Witness ==
    /\ out.op = "Resubmit"
    /\ chain = 2
    /\ out.arg.previous # NilHash
    /\ out.err = "Replay"

\* C12: ReplaceAuthorizedKeys with an empty list returns MissingKey and
\* leaves the whole builder as it was; with a non-empty list it succeeds and
\* changes authorized_keys to that list and nothing else.
C12_ReplaceAuthorizedKeys ==
    [][out'.op = "ReplaceAuthorizedKeys" /\ m # Nil =>
          IF out'.arg = <<>>
          THEN out'.err = "MissingKey" /\ m' = m
          ELSE /\ out'.err = OK
               /\ m'.entry.authorized_keys = out'.arg
               /\ m' = [m EXCEPT !.entry.authorized_keys = out'.arg]]_vars

\* C12 witness: the builder holds keys, and a call with the empty list has
\* just failed on it.
C12_Witness ==
    /\ out.op = "ReplaceAuthorizedKeys"
    /\ out.arg = <<>>
    /\ out.err = "MissingKey"
    /\ m.entry.authorized_keys = <<K1>>

(***************************************************************************)
(* Properties of Client.Update.                                            *)
(***************************************************************************)
AllRetry(results) == \A k \in DOMAIN results : results[k] = "Retry"

\* C13: Update submits at most RetryCount + 1 times, every attempt but the
\* last one ended with Retry, an update whose attempts all ended with Retry
\* returns Retry, and an update that has begun its attempts returns.
C13_BoundedRetries ==
    /\ [](/\ upd.submissions <= upd.RetryCount + 1
          /\ Len(upd.results) <= upd.RetryCount + 1
          /\ \A k \in 1..(Len(upd.results) - 1) : upd.results[k] = "Retry"
          /\ upd.pc = "done" /\ upd.results # <<>> /\ AllRetry(upd.results) =>
                upd.err = "Retry")
    /\ (Running ~> upd.pc = "done")

\* C13 witness: with RetryCount 2 every attempt ended with Retry; Update
\* has returned Retry after three submissions.
C13_Witness ==
    /\ upd.pc = "done"
    /\ upd.RetryCount = 2
    /\ upd.submissions = 3
    /\ upd.results = <<"Retry", "Retry", "Retry">>
    /\ upd.err = "Retry"

\* C14: once an attempt has ended with an error other than Retry, the next
\* step of Update is its return, with that error and without a submission.
C14_OnlyRetryIsConsumed ==
    [][upd.pc = "loop" /\ upd.err \notin {OK, "Retry"} =>
          /\ upd'.pc = "done"
          /\ upd'.err = upd.err
          /\ upd'.submissions = upd.submissions
          /\ upd'.results = upd.results
          /\ leaf' = leaf]_vars

\* C14 witness: the second attempt failed in the verification of the
\* response while a retry was left; Update has returned that error.
C14_Witness ==
    /\ upd.pc = "done"
    /\ upd.RetryCount = 2
    /\ upd.results = <<"Retry", "SparseProofInvalid">>
    /\ upd.err = "SparseProofInvalid"
    /\ upd.submissions = 2


(***************************************************************************)
(* Properties of Client.ListHistory.                                       *)
(***************************************************************************)
\* The i-th value the server delivered to the call, over all its pages.
SeenValue(i) == EpochValue(hist.seen[i].rev, hist.seen[i].kind)

\* The number of epochs the caller asked for: end - start + 1.
Asked == hist.end - hist.arg + 1

AllSeenVerify ==
    \A i \in 1..Len(hist.seen) :
      VerifyGetEntryResponse(DomainID, AppID, UserID, trusted, SeenValue(i)).err = OK

SeenProfile(i) == GetCommittedData(SeenValue(i))

FirstOfRun(i) ==
    IF i = 1 THEN SeenProfile(1) # Nil ELSE SeenProfile(i) # SeenProfile(i - 1)

\* Entry b follows entry a in the returned map, taken in epoch order.
NextRecorded(a, b) ==
    /\ a.smr.map_revision < b.smr.map_revision
    /\ ~\E c \in hist.ret.map :
          /\ a.smr.map_revision < c.smr.map_revision
          /\ c.smr.map_revision < b.smr.map_revision

\* C16: the map ListHistory returns holds exactly one entry for every run of
\* equal consecutive profiles, keyed by the map root of the run's first
\* epoch; taken in epoch order no two adjacent entries have equal profiles,
\* and a nil profile is recorded only after a non-nil one.
C16_ConsecutiveProfilesFiltered ==
    (hist.pc = "done" /\ hist.ret # Nil) =>
      /\ hist.ret.map = {[smr |-> SeenValue(i).smr, profile |-> SeenProfile(i)] :
                           i \in {j \in 1..Len(hist.seen) : FirstOfRun(j)}}
      /\ \A a, b \in hist.ret.map : NextRecorded(a, b) => a.profile # b.profile
      /\ \A a \in hist.ret.map :
           a.profile = Nil =>
             \E b \in hist.ret.map :
                /\ b.smr.map_revision < a.smr.map_revision
                /\ b.profile # Nil

\* C16 witness: epochs 0..3 delivered with no entry, a profile, the same
\* profile, another profile: two entries are returned.
C16_Witness ==
    /\ hist.pc = "done"
    /\ hist.ret # Nil
    /\ Len(hist.seen) = 4
    /\ [i \in 1..4 |-> hist.seen[i].kind] = <<"absent", "dead", "dead", "flipped">>
    /\ Cardinality(hist.ret.map) = 2

(***************************************************************************)
(* Properties of the monitor.                                              *)
(***************************************************************************)
\* The adjacent pairs of a sequence of epochs.
Pairs(es) == [k \in 1..(Len(es) - 1) |-> EpochPair(es[k], es[k + 1])]

\* The epochs EpochPairs has received are the server's, in revision order.
ConsumedInOrder ==
    \A i \in 1..Len(former.consumed) :
      former.consumed[i] = EpochAt(SubSeq(server, 1, i - 1))

\* C17: the pairs EpochPairs has sent are, in order, the adjacent pairs of
\* the epochs it has received, the B of each being the A of the next; only
\* the pair of the last epoch received can be waiting to be sent; and when
\* EpochPairs returns without cancellation it has sent every adjacent pair,
\* none when it received fewer than two epochs.
C17_EpochPairsNeverSkips ==
    /\ ConsumedInOrder
    /\ Len(former.emitted) <= Len(Pairs(former.consumed))
    /\ former.emitted = SubSeq(Pairs(former.consumed), 1, Len(former.emitted))
    /\ \A k \in 1..(Len(former.emitted) - 1) :
         former.emitted[k].B = former.emitted[k + 1].A
    /\ former.pc = "send" =>
         /\ Len(former.emitted) = Len(former.consumed) - 2
         /\ former.pair = Pairs(former.consumed)[Len(former.consumed) - 1]
    /\ former.pc = "recv" => former.emitted = Pairs(former.consumed)
    /\ (former.pc \in {"report", "done"} /\ former.err = OK) =>
         former.emitted = Pairs(former.consumed)

\* C17 witness: EpochPairs received three epochs, sent their two pairs and
\* returned nil when the epochs channel was closed.
C17_Witness ==
    /\ former.pc \in {"report", "done"}
    /\ former.err = OK
    /\ Len(former.consumed) = 3
    /\ Len(former.emitted) = 2
    /\ former.emitted[1] = EpochPair(former.consumed[1], former.consumed[2])
    /\ former.emitted[2] = EpochPair(former.consumed[2], former.consumed[3])

\* The map root of epoch B under the monitor's signature.
Countersigned(smr) ==
    [smr EXCEPT !.signature = SignObject(MonitorKey, [smr EXCEPT !.signature = Nil])]

\* C18: every stored result is filed under epoch B's map revision; its map
\* root is non-nil exactly when its error list is empty, exactly when
\* VerifyEpochMutations reports no error for the pair and the mutations
\* fetched for it; a non-nil map root is epoch B's under the monitor's
\* signature.
C18_SignedIffVerified ==
    \A k \in 1..Len(store) :
      LET s == store[k]
          errs == VerifyEpochMutations(s.trusted, s.pair.A, s.pair.B,
                                       s.mutations).errs
      IN  /\ s.revision = s.pair.B.smr.map_revision
          /\ s.mutations = MutationsAt(SubSeq(server, 1, s.revision))
          /\ (s.result.smr # Nil) <=> (s.result.errors = <<>>)
          /\ (s.result.errors = <<>>) <=> (errs = <<>>)
          /\ s.result.errors = errs
          /\ s.result.smr # Nil => s.result.smr = Countersigned(s.pair.B.smr)

\* C18 witness: the store holds a countersigned result and a result with
\* errors.
C18_Witness ==
    /\ \E k \in 1..Len(store) :
         store[k].result.smr # Nil /\ store[k].result.errors = <<>>
    /\ \E k \in 1..Len(store) :
         store[k].result.smr = Nil /\ store[k].result.errors # <<>>

\* The results stored are those of the pairs ProcessLoop received, one for
\* each and in their order; only the pair in hand has none.
StoredInOrder ==
    /\ Len(store) <= Len(former.emitted)
    /\ Len(store) >= Len(former.emitted) - 1
    /\ loop.pc \in {"recv", "drain"} => Len(store) = Len(former.emitted)
    /\ \A k \in 1..Len(store) :
         /\ store[k].pair = former.emitted[k]
         /\ store[k].revision = former.emitted[k].B.smr.map_revision
         /\ k > 1 => store[k - 1].revision < store[k].revision

\* ProcessLoop returned from inside its loop, on an error of EpochMutations,
\* signMapRoot or store.Set.
Halted == loop.pc = "returned" /\ loop.ret \in {"FetchError", "SignError", "StoreError"}

\* C19: the step that stores a result with errors takes ProcessLoop back to
\* receiving the next pair, without returning and without cancelling; the
\* store holds one result per pair received, in revision order, none missing
\* when ProcessLoop is back at receiving; and with a pair in hand ProcessLoop
\* comes back to receiving unless a fetch, a signature or the store fails.
C19_VerificationFailureDoesNotStop ==
    /\ []StoredInOrder
    /\ [][(Len(store') > Len(store) /\ store'[Len(store')].result.errors # <<>>)
            => (loop'.pc = "recv" /\ ctl' = ctl)]_vars
    /\ [](loop.pc = "returned" /\ loop.drained < 2 => Halted)
    /\ LoopBusy ~> (loop.pc = "recv" \/ Halted)

\* C19 witness: the first pair's result was stored with errors, and the
\* result of the pair after it was stored too.
C19_Witness ==
    /\ Len(store) = 2
    /\ store[1].revision = 1
    /\ store[1].result.errors # <<>>
    /\ store[2].revision = 2
    /\ loop.pc = "recv"

\* C20: once EpochMutations has failed for a pair, ProcessLoop has returned
\* that error, the store holds the results of the earlier pairs only, and
\* nothing is received or stored after the return.
C20_HaltsOnFetchFailure ==
    /\ [](loop.fetchErr # OK =>
            /\ loop.pc = "returned"
            /\ loop.ret = loop.fetchErr
            /\ Len(store) = Len(former.emitted) - 1
            /\ \A k \in 1..Len(store) :
                 store[k].revision < loop.pair.B.smr.map_revision)
    /\ [][loop.pc = "returned" =>
            (loop' = loop /\ store' = store /\ former'.emitted = former.emitted)]_vars

\* C20 witness: the fetch for the second pair failed after the first pair's
\* result was stored, while EpochPairs waits for another epoch.
C20_Witness ==
    /\ loop.fetchErr = "FetchError"
    /\ loop.pc = "returned"
    /\ Len(former.emitted) = 2
    /\ Len(store) = 1
    /\ former.pc = "recv"

\* What VerifyEpoch says of epoch B of a stored result.
SmrErrors(s) == VerifyEpoch(s.trusted, s.pair.B).errs

\* What verifyMutations says of the mutations of a stored result.
MutationSetErrors(s) ==
    verifyMutations(s.mutations, s.pair.A.smr.root_hash, s.pair.B.smr.root_hash,
                    s.pair.B.smr.map_id)

\* The pair in hand got no result: the store ends with the pair before it.
PairNotStored ==
    /\ Len(store) = Len(former.emitted) - 1
    /\ loop.pair = former.emitted[Len(former.emitted)]

\* C21 as stated: no result is stored for a pair whose epoch B failed
\* VerifyEpoch, a pair whose mutations failed verification has a result with
\* those errors, and a pair whose fetch, signature or store failed has none.
C21_SmrFailureNotStored ==
    /\ \A k \in 1..Len(store) :
         /\ SmrErrors(store[k]) = <<>>
         /\ MutationSetErrors(store[k]) # <<>> =>
              store[k].result = Result(Nil, MutationSetErrors(store[k]))
    /\ Halted => PairNotStored

\* C21 amended: a pair goes from received to fetched, verified, signed and
\* stored in that order; a failed fetch, signature or store ends ProcessLoop
\* with no result for the pair; a pair whose epoch B fails VerifyEpoch and a
\* pair whose mutations fail verification both skip the signature and are
\* stored with the errors and no map root; a pair that verifies is stored
\* with the countersigned map root.
C21_PairStateMachine ==
    /\ [](\A k \in 1..Len(store) :
            LET s == store[k]
            IN  /\ SmrErrors(s) # <<>> => s.result = Result(Nil, SmrErrors(s))
                /\ (SmrErrors(s) = <<>> /\ MutationSetErrors(s) # <<>>) =>
                     s.result = Result(Nil, MutationSetErrors(s))
                /\ (SmrErrors(s) = <<>> /\ MutationSetErrors(s) = <<>>) =>
                     s.result = Result(Countersigned(s.pair.B.smr), <<>>))
    /\ [](Halted => PairNotStored)
    /\ [][/\ loop.pc = "recv" => loop'.pc \in {"recv", "fetch", "drain"}
          /\ loop.pc = "fetch" => loop'.pc \in {"fetch", "verify", "returned"}
          /\ loop.pc = "verify" => loop'.pc \in {"verify", "sign", "store"}
          /\ loop.pc = "sign" => loop'.pc \in {"sign", "store", "returned"}
          /\ loop.pc = "store" => loop'.pc \in {"store", "recv", "returned"}
          /\ store' # store =>
               /\ loop.pc = "store"
               /\ loop'.pc = "recv"
               /\ store' = Append(store, store'[Len(store')])
               /\ store'[Len(store')].pair = loop.pair
          /\ (loop.pc = "verify" /\ loop'.pc = "sign") =>
               loop'.errList = <<>>
          /\ (loop.pc = "verify" /\ loop'.pc = "store") =>
               loop'.errList # <<>>]_vars

\* C21 witness: the store holds the result of a pair whose epoch B failed
\* VerifyEpoch and the result of a pair whose mutations failed verification,
\* both with errors and without a map root.
C21_Witness ==
    /\ \E k \in 1..Len(store) :
         /\ SmrErrors(store[k]) # <<>>
         /\ store[k].result = Result(Nil, SmrErrors(store[k]))
    /\ \E k \in 1..Len(store) :
         /\ SmrErrors(store[k]) = <<>>
         /\ MutationSetErrors(store[k]) # <<>>
         /\ store[k].result = Result(Nil, MutationSetErrors(store[k]))

\* C22: when ProcessLoop has returned, by whatever path, it has received the
\* errors of both background tasks from errc, and the epoch streamer and
\* EpochPairs have both terminated, neither left at its send on errc.
C22_ReleaseOnEveryExit ==
    loop.pc = "returned" =>
      /\ loop.drained = 2
      /\ stream.pc = "done"
      /\ former.pc = "done"

\* C23: once any of the three tasks has exited (the streamer or EpochPairs
\* has returned and is handing over its error, or ProcessLoop has returned)
\* the cancel signal has been given, so that the tasks still running find
\* their context done.
C23_AnyExitCancels ==
    (\/ stream.pc \in {"report", "done"}
     \/ former.pc \in {"report", "done"}
     \/ loop.pc = "returned") => ctl.cancelled

\* C24: when ProcessLoop has returned after collecting both errors of errc
\* it returns the first non-nil one of the two, and when the streamer and
\* EpochPairs both finished with an error, the streamer's.
C24_PrefersStreamerError ==
    (loop.pc = "returned" /\ loop.drained = 2) =>
      /\ loop.ret \in {stream.err, former.err}
      /\ (stream.err = OK /\ former.err = OK) => loop.ret = OK
      /\ (stream.err # OK \/ former.err # OK) => loop.ret # OK
      /\ (stream.err # OK /\ former.err # OK) => loop.ret = stream.err

\* EpochPairs has returned.
FormerExited == former.pc \in {"report", "done"}

\* C25: pairs is closed exactly when EpochPairs has returned, whether it
\* returned nil because epochs was closed or ctx.Err() because the context
\* was done while a pair was waiting to be sent; the pair that was waiting
\* is dropped; and once pairs is closed it stays closed and no pair is sent.
C25_EpochPairsClosesPairs ==
    /\ [](FormerExited <=> ctl.pairsClosed)
    /\ [](FormerExited => former.pair = Nil)
    /\ [](FormerExited /\ former.err = OK => ctl.epochsClosed)
    /\ [](FormerExited /\ former.err # OK =>
            (former.err = "Canceled" /\ ctl.cancelled))
    /\ [][ctl.pairsClosed =>
            /\ ctl'.pairsClosed
            /\ former'.emitted = former.emitted
            /\ former'.pc \in {"report", "done"}
            /\ loop'.pc # "fetch" \/ loop.pc = "fetch"]_vars

\* C25 witness: EpochPairs returned ctx.Err() with the second pair waiting
\* to be sent, pairs is closed and only the first pair was sent.
C25_Witness ==
    /\ former.pc = "report"
    /\ former.err = "Canceled"
    /\ ctl.pairsClosed
    /\ Len(former.consumed) = 3
    /\ Len(former.emitted) = 1

(***************************************************************************)
(* More properties of the mutation builder.                                *)
(***************************************************************************)
\* Two of the signers share a key id.
DuplicateKeyIds(signers) ==
    \E i, j \in DOMAIN signers : i # j /\ signers[i].key_id = signers[j].key_id

\* C26: SerializeAndSign called with two signers of the same key id fails
\* and emits no submission.
C26_DuplicateKeyIdsRejected ==
    (out.op = "SerializeAndSign" /\ DuplicateKeyIds(out.signers)) =>
        /\ out.err # OK
        /\ out.req = Nil

(***************************************************************************)
(* More properties of Client.Update.                                       *)
(***************************************************************************)
\* The leaf the server showed in its answer to the last submission.
ShownLeaf(answer) == GetLeafValue(answer.proof.leaf_proof)

\* The answer passes VerifyGetEntryResponse against the client's trusted root.
AnswerVerifies(answer) ==
    /\ answer.err = OK
    /\ VerifyGetEntryResponse(DomainID, AppID, UserID, trusted, answer.proof).err = OK

\* C27: in every call of Retry, with s what SerializeAndSign made of the
\* builder: the call returns nil only if the mutation was submitted, the
\* answer verified and the leaf it shows is the entry that was submitted;
\* when the answer verifies and shows another leaf the call returns Retry
\* and leaves the builder with that leaf as its previous entry, previous
\* being its hash and nothing else changed, so that the mutation of the next
\* attempt names the shown leaf as its previous.
C27_RetryRebasesOnCurrentLeaf ==
    [][Len(upd'.results) = Len(upd.results) + 1 =>
         LET s == SerializeAndSign(m, upd.signers, trusted.tree_size)
             a == upd'.answer
             e == upd'.results[Len(upd'.results)]
         IN  /\ e = OK =>
                   /\ s.err = OK
                   /\ a # Nil
                   /\ AnswerVerifies(a)
                   /\ FromLeafValue(ShownLeaf(a)).err = OK
                   /\ FromLeafValue(ShownLeaf(a)).entry = s.m.entry
             /\ (/\ s.err = OK
                 /\ a # Nil
                 /\ AnswerVerifies(a)
                 /\ FromLeafValue(ShownLeaf(a)).entry # s.m.entry) =>
                   /\ e = "Retry"
                   /\ m'.prevEntry = FromLeafValue(ShownLeaf(a)).entry
                   /\ m' = [s.m EXCEPT
                              !.prevEntry = FromLeafValue(ShownLeaf(a)).entry,
                              !.entry.previous =
                                  ObjectHash(FromLeafValue(ShownLeaf(a)).entry)]
                   /\ LET next == SerializeAndSign(m', upd.signers, trusted'.tree_size)
                      IN  next.m.entry.previous =
                              ObjectHash(FromLeafValue(ShownLeaf(a)).entry)]_vars

\* C27 witness: the first attempt was answered with a verified proof of
\* another device's entry and ended with Retry; the second attempt, chained
\* to that entry, was answered with the submitted entry and succeeded.
C27_Witness ==
    /\ upd.results = <<"Retry", OK>>
    /\ chain = 2
    /\ upd.answer # Nil
    /\ AnswerVerifies(upd.answer)
    /\ FromLeafValue(ShownLeaf(upd.answer)).entry # Nil
    /\ FromLeafValue(ShownLeaf(upd.answer)).entry.previous[2].commitment
           = Commit(UserID, AppID, DataFlipped, NonceZero)

\* C28: after any sequence of builder operations the entry's previous field
\* is the object hash of the builder's previous entry, the hash of nil when
\* none was set; a new builder starts with neither; the two change only in
\* a SetPrevious call that succeeds, which sets them to the decoded leaf and
\* its hash; a SetPrevious call that fails leaves the builder as it was.
C28_BuilderChaining ==
    /\ [](m # Nil =>
            /\ m.entry.previous = ObjectHash(m.prevEntry)
            /\ m.prevEntry = Nil => m.entry.previous = NilHash)
    /\ [][out'.op = "NewMutation" =>
            (m'.prevEntry = Nil /\ m'.entry.previous = NilHash)]_vars
    /\ [][(m # Nil /\ m' # Nil /\ out'.op # "NewMutation") =>
            /\ (m'.prevEntry # m.prevEntry \/ m'.entry.previous # m.entry.previous) =>
                 /\ out'.op = "SetPrevious"
                 /\ out'.err = OK
            /\ (out'.op = "SetPrevious" /\ out'.err = OK) =>
                 /\ FromLeafValue(out'.arg[1]).err = OK
                 /\ m'.prevEntry = FromLeafValue(out'.arg[1]).entry
                 /\ m'.entry.previous = ObjectHash(FromLeafValue(out'.arg[1]).entry)
            /\ (out'.op = "SetPrevious" /\ FromLeafValue(out'.arg[1]).err # OK) =>
                 /\ out'.err = FromLeafValue(out'.arg[1]).err
                 /\ m' = m]_vars

\* C28 witness: a builder whose previous entry was set has gone through a
\* SetPrevious call that failed to decode its leaf, and still holds that
\* previous entry and its hash.
C28_Witness ==
    /\ out.op = "SetPrevious"
    /\ out.arg[1] = GarbageLeaf
    /\ out.err # OK
    /\ m.prevEntry # Nil
    /\ m.entry.previous = ObjectHash(m.prevEntry)
    /\ m.entry.previous # NilHash

\* The pair (nonce, data) the builder b holds opens its entry's commitment.
Opens(b) == b.entry.commitment = Commit(b.UserID, b.AppID, b.data, b.nonce)

\* A SetPrevious call with copyPrevious = true has just succeeded.
CopiedPrevious == out.op = "SetPrevious" /\ out.arg[2] /\ out.err = OK

\* C29 as stated: whenever SetCommitment was called on the builder, in
\* whatever order with SetPrevious, the pair (nonce, data) of an emitted
\* submission opens the commitment of the emitted entry.
C29_CommittedOpensCommitment ==
    (out.op = "SerializeAndSign" /\ out.req # Nil /\ m.data # Nil) =>
        out.req.entry_update.mutation.commitment =
            Commit(m.UserID, m.AppID, out.req.entry_update.committed.data,
                   out.req.entry_update.committed.key)

\* C29 amended: a successful SetCommitment leaves a builder whose pair
\* opens its commitment; every later operation keeps it so except a
\* successful SetPrevious with copyPrevious = true, which replaces the
\* commitment by the previous entry's and keeps the pair; and an emitted
\* submission carries the builder's pair and its entry, so its pair opens
\* its commitment when the builder's does.
C29_CommitmentUnlessCopied ==
    /\ [][(out'.op = "SetCommitment" /\ out'.err = OK) => Opens(m')]_vars
    /\ [][(m # Nil /\ m' # Nil /\ Opens(m) /\ out'.op # "NewMutation"
            /\ ~CopiedPrevious') => Opens(m')]_vars
    /\ [][(m # Nil /\ CopiedPrevious') =>
            /\ m'.entry.commitment = GetCommitment(m'.prevEntry)
            /\ m'.data = m.data
            /\ m'.nonce = m.nonce]_vars
    /\ [](out.op = "SerializeAndSign" /\ out.req # Nil =>
            /\ out.req.entry_update.committed = [key |-> m.nonce, data |-> m.data]
            /\ out.req.entry_update.mutation = m.entry
            /\ Opens(m) =>
                  out.req.entry_update.mutation.commitment =
                      Commit(m.UserID, m.AppID, out.req.entry_update.committed.data,
                             out.req.entry_update.committed.key))

\* C29 witness: a builder chained to the entry the map stores, with a
\* commitment of its own, was signed and emitted, and the emitted pair
\* opens the emitted commitment, which is not the previous entry's.
C29_Witness ==
    /\ out.op = "SerializeAndSign"
    /\ out.req # Nil
    /\ m.data # Nil
    /\ m.prevEntry # Nil
    /\ m.prevEntry.commitment # m.entry.commitment
    /\ out.req.entry_update.mutation.commitment =
           Commit(m.UserID, m.AppID, out.req.entry_update.committed.data,
                  out.req.entry_update.committed.key)

(***************************************************************************)
(* More properties of Client.ListHistory.                                  *)
(***************************************************************************)
\* C30: a call of ListHistory whose page requests are all answered makes at
\* most end - start + 1 of them, none when end is below start, whatever
\* the pages hold and whatever next_start they name.
C30_BoundedPageRequests ==
    (hist.pc # "idle" /\ hist.arg >= 0 /\ hist.err # "RpcError") =>
        hist.requests <= (IF Asked > 0 THEN Asked ELSE 0)

====
